---- MODULE Spec2Model ----
(***************************************************************************)
(* Model of the SERA service core: the per-source tables (whoop_daily,     *)
(* whoop_body_measurement, body_metrics), the canonical table              *)
(* sera_daily_snapshot, the merge engine (app/core/merge.py), the          *)
(* readiness engine (app/api/v1/snapshot.py) and the request handlers      *)
(* that call them.                                                         *)
(*                                                                         *)
(* Requests.  A handler is a plain function that runs on a worker thread   *)
(* with a session of its own (SessionLocal: autocommit=False,              *)
(* autoflush=False).  Its queries see the committed rows plus the changes  *)
(* the session made to rows it already loaded, and never a row the         *)
(* session added but has not flushed; its commit writes the columns whose  *)
(* value changed and fails on a broken unique constraint.  A handler       *)
(* waits at every statement it sends to the database and at every request  *)
(* it sends to the WHOOP API, so one action is one such wait (a SELECT,    *)
(* the flush and COMMIT, the SELECT of a db.refresh, a client.get) with    *)
(* the Python code that follows it.  All specifications run the same       *)
(* actions.  Spec and                                                      *)
(* HistorySpec are the service under a client that sends one request       *)
(* after the other.  CycleSpec also takes the attribute assignments of a   *)
(* request apart, with the failure that can end it between any two of      *)
(* them.  RaceSpec serves two requests at once: their statements           *)
(* interleave freely.                                                      *)
(*                                                                         *)
(* Numbers.  A Float or Integer column holds what Python holds, an IEEE    *)
(* 754 double: [s |-> sign, m |-> magnitude of 53 bits, e |-> exponent].   *)
(* The arithmetic is Python's, each operation rounded to nearest, ties to  *)
(* even; 0.0 and -0.0 are two values that compare equal.  Infinities,      *)
(* NaN and subnormal numbers are not represented.  A nullable value is     *)
(* <<>> (SQL NULL / Python None) or <<v>>.  A date is a day number, read   *)
(* from a request's text by fromisoformat; a timestamp is an hour number,  *)
(* and datetime.date() is the hour number divided by 24.                   *)
(***************************************************************************)
EXTENDS Integers, Sequences, FiniteSets, TLC

\* ------------------------------------------------------------ optionals

None == <<>>

Some(v) == <<v>>

IsNone(x) == x = <<>>

NotNone(x) == x # <<>>

Get(x) == x[1]

\* ------------------------------------------------------------ naturals

\* A natural number of any size: the sequence of its digits in base 2^15,
\* least significant first, without a leading zero digit (0 is << >>).
Base == 32768

RECURSIVE BNorm(_)
BNorm(a) ==
  IF a = << >> THEN << >>
  ELSE IF a[Len(a)] = 0 THEN BNorm(SubSeq(a, 1, Len(a) - 1))
  ELSE a

RECURSIVE BFromNat(_)
BFromNat(n) == IF n = 0 THEN << >> ELSE <<n % Base>> \o BFromNat(n \div Base)

\* a < 2^31
RECURSIVE BToNat(_)
BToNat(a) == IF a = << >> THEN 0 ELSE a[1] + Base * BToNat(Tail(a))

RECURSIVE BAddC(_, _, _)
BAddC(a, b, c) ==
  IF a = << >> /\ b = << >> THEN (IF c = 0 THEN << >> ELSE <<c>>)
  ELSE LET x == (IF a = << >> THEN 0 ELSE a[1]) + (IF b = << >> THEN 0 ELSE b[1]) + c
       IN  <<x % Base>> \o BAddC(IF a = << >> THEN a ELSE Tail(a),
                                 IF b = << >> THEN b ELSE Tail(b), x \div Base)

BAdd(a, b) == BAddC(a, b, 0)

\* a - b - c for a >= b + c, not normalised
RECURSIVE BSubC(_, _, _)
BSubC(a, b, c) ==
  IF a = << >> THEN << >>
  ELSE LET x == a[1] - (IF b = << >> THEN 0 ELSE b[1]) - c
       IN  <<(x + Base) % Base>>
             \o BSubC(Tail(a), IF b = << >> THEN b ELSE Tail(b),
                      IF x < 0 THEN 1 ELSE 0)

\* a - b for a >= b
BSub(a, b) == BNorm(BSubC(a, b, 0))

\* -1, 0, 1 as a < b, a = b, a > b
RECURSIVE BCmpTop(_, _, _)
BCmpTop(a, b, i) ==
  IF i = 0 THEN 0
  ELSE IF a[i] < b[i] THEN -1
  ELSE IF a[i] > b[i] THEN 1
  ELSE BCmpTop(a, b, i - 1)

BCmp(a, b) ==
  IF Len(a) < Len(b) THEN -1
  ELSE IF Len(a) > Len(b) THEN 1
  ELSE BCmpTop(a, b, Len(a))

\* a * k + c for k, c < 2^15
RECURSIVE BMulSmallC(_, _, _)
BMulSmallC(a, k, c) ==
  IF a = << >> THEN (IF c = 0 THEN << >> ELSE <<c>>)
  ELSE LET x == a[1] * k + c
       IN  <<x % Base>> \o BMulSmallC(Tail(a), k, x \div Base)

BMulSmall(a, k) == IF k = 0 THEN << >> ELSE BMulSmallC(a, k, 0)

\* Long multiplication by the digits of b from the top: b holds the digits
\* still to multiply by, p the product so far.
RECURSIVE BMulSteps(_, _)
BMulSteps(st, a) ==
  IF st.b = << >> THEN st
  ELSE BMulSteps([b |-> SubSeq(st.b, 1, Len(st.b) - 1),
                  p |-> BAdd(BMulSmall(a, st.b[Len(st.b)]),
                             IF st.p = << >> THEN st.p ELSE <<0>> \o st.p)], a)

BMul(a, b) == IF a = << >> THEN << >> ELSE BMulSteps([b |-> b, p |-> << >>], a).p

\* a * 2^k
BShl(a, k) ==
  IF a = << >> THEN a
  ELSE [i \in 1..(k \div 15) |-> 0] \o BMulSmall(a, 2 ^ (k % 15))

\* floor(a / 2^k)
BShr(a, k) ==
  LET drop == k \div 15
      r == k % 15
      n == Len(a) - drop
  IN  IF n <= 0 THEN << >>
      ELSE BNorm([i \in 1..n |->
                    (a[drop + i] \div (2 ^ r))
                    + (IF i < n THEN (a[drop + i + 1] % (2 ^ r)) * (2 ^ (15 - r))
                       ELSE 0)])

\* bit k of a (bit 0 is the lowest)
BBit(a, k) ==
  IF k \div 15 >= Len(a) THEN 0 ELSE (a[k \div 15 + 1] \div (2 ^ (k % 15))) % 2

\* a mod 2^k = 0
BLowZero(a, k) ==
  /\ \A i \in 1..Len(a) : i <= k \div 15 => a[i] = 0
  /\ (k \div 15 < Len(a)) => a[k \div 15 + 1] % (2 ^ (k % 15)) = 0

RECURSIVE BitLen(_)
BitLen(n) == IF n = 0 THEN 0 ELSE 1 + BitLen(n \div 2)

\* the number of bits of a
BBitLen(a) == IF a = << >> THEN 0 ELSE 15 * (Len(a) - 1) + BitLen(a[Len(a)])

\* Short division by 0 < k < 2^15, one digit of a per step from the top:
\* a holds the digits still to divide, q the quotient so far, r the remainder.
RECURSIVE BDivSmallSteps(_, _)
BDivSmallSteps(st, k) ==
  IF st.a = << >> THEN st
  ELSE LET x == st.r * Base + st.a[Len(st.a)] IN
       BDivSmallSteps([a |-> SubSeq(st.a, 1, Len(st.a) - 1),
                       q |-> <<x \div k>> \o st.q, r |-> x % k], k)

\* floor(a / k), a mod k and whether a mod k = 0, for 0 < k < 2^15
BDivSmall(a, k) ==
  LET d == BDivSmallSteps([a |-> a, q |-> << >>, r |-> 0], k) IN
  [q |-> BNorm(d.q), r |-> d.r, exact |-> d.r = 0]

\* The greatest q <= guess with q * b <= r.
RECURSIVE BDigitFix(_, _, _)
BDigitFix(r, b, guess) ==
  IF BCmp(BMulSmall(b, guess), r) > 0 THEN BDigitFix(r, b, guess - 1) ELSE guess

\* One digit of a long division: floor(r / b) for r < b * 2^15, where the top
\* digit of b is at least 2^14.
BDigit(r, b) ==
  LET n == Len(b)
      top == (IF Len(r) > n THEN r[n + 1] * Base ELSE 0)
             + (IF Len(r) >= n THEN r[n] ELSE 0)
      guess == top \div b[n]
  IN  BDigitFix(r, b, IF guess > Base - 1 THEN Base - 1 ELSE guess)

\* The state of a long division after the step that divides x, the remainder
\* with the next digit of a appended, and finds `digit`.
BDivStep(st, x, b, digit) ==
  [a |-> SubSeq(st.a, 1, Len(st.a) - 1),
   q |-> <<digit>> \o st.q,
   r |-> BSub(x, BMulSmall(b, digit))]

\* Long division, one digit of a per step from the top: a holds the digits
\* still to divide, q the quotient so far, r the remainder.
RECURSIVE BDivSteps(_, _)
BDivSteps(st, b) ==
  IF st.a = << >> THEN st
  ELSE LET x == BNorm(<<st.a[Len(st.a)]>> \o st.r) IN
       BDivSteps(BDivStep(st, x, b, BDigit(x, b)), b)

\* The result of a long division that ended in the state d.
BDivResult(d) == [q |-> BNorm(d.q), exact |-> d.r = << >>]

\* floor(a / b) and whether a mod b = 0, for b > 0
BDiv(a, b) ==
  LET s == 15 - BitLen(b[Len(b)]) IN
  BDivResult(BDivSteps([a |-> BShl(a, s), q |-> << >>, r |-> << >>], BShl(b, s)))

\* ------------------------------------------------------------ doubles

\* A Python float (IEEE 754 binary64, round to nearest, ties to even): the
\* sign bit s, and the magnitude m * 2^e with 2^52 <= m < 2^53; zero is
\* m = << >>, e = 0, with its sign.  Infinities, NaN and subnormal numbers
\* are outside the model.
Double(s, m, e) == [s |-> s, m |-> m, e |-> e]

\* (x + f) / 2^k for k >= 1 rounded to the nearest integer, ties to the even
\* one, where 0 <= f < 1 and sticky = (f > 0): q is floor(x / 2^k).
BRoundUp(x, k, sticky, q) ==
  IF BBit(x, k - 1) = 1 /\ (sticky \/ ~BLowZero(x, k - 1) \/ BBit(q, 0) = 1)
  THEN BAdd(q, <<1>>)
  ELSE q

BShrRound(x, k, sticky) == BRoundUp(x, k, sticky, BShr(x, k))

\* (-1)^s * m * 2^e for 2^52 <= m <= 2^53: rounding up may carry into bit 53
Carry(s, m, e) ==
  IF BBitLen(m) = 54 THEN Double(s, BShr(m, 1), e + 1) ELSE Double(s, m, e)

\* RoundPack for x of `len` bits
RoundBits(s, x, e, sticky, len) ==
  IF len = 0 THEN Double(s, << >>, 0)
  ELSE IF len <= 53 THEN Double(s, BShl(x, 53 - len), e - (53 - len))
  ELSE Carry(s, BShrRound(x, len - 53, sticky), e + (len - 53))

\* (-1)^s * (x + f) * 2^e rounded to a double, where 0 <= f < 1 and
\* sticky = (f > 0); x has at least 55 bits when sticky.
RoundPack(s, x, e, sticky) == RoundBits(s, x, e, sticky, BBitLen(x))

\* The quotient d of a division, times 2^e, rounded to a double.
RoundQuotient(s, d, e) == RoundPack(s, d.q, e, ~d.exact)

FIsZero(x) == x.m = << >>

\* float(i) for an integer |i| < 2^31
Num(i) == RoundPack(IF i < 0 THEN 1 ELSE 0, BFromNat(IF i < 0 THEN -i ELSE i), 0, FALSE)

FNeg(x) == [x EXCEPT !.s = 1 - x.s]

\* |x| < |y|, |x| = |y|, |x| > |y| as -1, 0, 1
FCmpAbs(x, y) ==
  IF FIsZero(x) THEN (IF FIsZero(y) THEN 0 ELSE -1)
  ELSE IF FIsZero(y) THEN 1
  ELSE IF x.e < y.e THEN -1
  ELSE IF x.e > y.e THEN 1
  ELSE BCmp(x.m, y.m)

\* big + small for |big| >= |small| > 0: the digits of big, moved up by
\* `shift` bits, plus or minus `low`, rounded once.
FAddAligned(big, small, shift, low) ==
  IF big.s # small.s /\ big.e = small.e /\ big.m = small.m
  THEN Double(0, << >>, 0)
  ELSE RoundPack(big.s,
                 IF big.s = small.s THEN BAdd(BShl(big.m, shift), low)
                 ELSE BSub(BShl(big.m, shift), low),
                 big.e - shift, FALSE)

\* big + small for |big| >= |small| > 0: big is moved up by the gap of the
\* exponents; past 110 bits the small operand only tells the direction.
FAddOrdered(big, small) ==
  FAddAligned(big, small,
              IF big.e - small.e > 110 THEN 110 ELSE big.e - small.e,
              IF big.e - small.e > 110 THEN <<1>> ELSE small.m)

\* x + y
FAdd(x, y) ==
  IF FIsZero(x) /\ FIsZero(y) THEN Double(IF x.s = 1 /\ y.s = 1 THEN 1 ELSE 0, << >>, 0)
  ELSE IF FIsZero(x) THEN y
  ELSE IF FIsZero(y) THEN x
  ELSE FAddOrdered(IF FCmpAbs(x, y) >= 0 THEN x ELSE y,
                   IF FCmpAbs(x, y) >= 0 THEN y ELSE x)

\* x - y
FSub(x, y) == FAdd(x, FNeg(y))

\* The number of zero digits at the low end of a > 0
RECURSIVE BLowDigits(_)
BLowDigits(a) == IF a[1] # 0 THEN 0 ELSE 1 + BLowDigits(Tail(a))

\* a > 0 as odd * Base^zeros: the digits of a above its low zero digits
BHigh(a) ==
  LET z == BLowDigits(a) IN [m |-> SubSeq(a, z + 1, Len(a)), zeros |-> z]

\* a * b * 2^e with the sign s, for a and b as BHigh gives them
FMulHigh(s, a, b, e) ==
  RoundPack(s, IF Len(a.m) < Len(b.m) THEN BMul(b.m, a.m) ELSE BMul(a.m, b.m),
            e + 15 * (a.zeros + b.zeros), FALSE)

\* x * y: the exact product, rounded once
FMul(x, y) ==
  IF FIsZero(x) \/ FIsZero(y) THEN Double(IF x.s = y.s THEN 0 ELSE 1, << >>, 0)
  ELSE FMulHigh(IF x.s = y.s THEN 0 ELSE 1, BHigh(x.m), BHigh(y.m), x.e + y.e)

\* x / y with the sign s for x # 0, b the divisor as BHigh gives it
FDivHigh(s, x, y, b) ==
  RoundQuotient(s,
                IF Len(b.m) = 1 THEN BDivSmall(<<0>> \o x.m, b.m[1])
                ELSE BDiv(BShl(x.m, 56), y.m),
                x.e - y.e - (IF Len(b.m) = 1 THEN 15 * (b.zeros + 1) ELSE 56))

\* x / y for y # 0 (Python raises ZeroDivisionError for y = 0): the
\* quotient to at least 55 bits and whether it is exact, rounded once.  A
\* divisor of one digit is divided by short division.
FDiv(x, y) ==
  IF FIsZero(x) THEN Double(IF x.s = y.s THEN 0 ELSE 1, << >>, 0)
  ELSE FDivHigh(IF x.s = y.s THEN 0 ELSE 1, x, y, BHigh(y.m))

\* x < y
FLess(x, y) ==
  IF FIsZero(x) /\ FIsZero(y) THEN FALSE
  ELSE IF x.s # y.s THEN x.s = 1
  ELSE IF x.s = 0 THEN FCmpAbs(x, y) < 0
  ELSE FCmpAbs(x, y) > 0

\* x == y
FEq(x, y) == (FIsZero(x) /\ FIsZero(y)) \/ x = y

\* x <= y
FLeq(x, y) == FLess(x, y) \/ FEq(x, y)

\* The float of the decimal literal n/d (d a power of ten): the double
\* nearest to n/d.
Float(n, d) == FDiv(Num(n), Num(d))

\* Python max(a, b) and min(a, b) on two numbers: the first argument unless
\* the second is strictly greater (resp. smaller).
FMax(a, b) == IF FLess(a, b) THEN b ELSE a

FMin(a, b) == IF FLess(b, a) THEN b ELSE a

\* floor(|x|) as a natural of any size, and whether |x| is that integer
FFloorAbs(x) ==
  IF FIsZero(x) THEN [q |-> << >>, exact |-> TRUE]
  ELSE IF x.e >= 0 THEN [q |-> BShl(x.m, x.e), exact |-> TRUE]
  ELSE [q |-> BShr(x.m, -x.e), exact |-> BLowZero(x.m, -x.e)]

\* the integer of sign s and magnitude n
Signed(s, n) == IF s = 1 THEN -n ELSE n

\* Python int(x): truncation toward zero (|x| < 2^31).
Trunc(x) == Signed(x.s, BToNat(FFloorAbs(x).q))

\* |x| rounded to the nearest integer, ties to the even one, as a natural of
\* any size
FRoundAbs(x) ==
  IF FIsZero(x) \/ x.e >= 0 THEN FFloorAbs(x).q ELSE BShrRound(x.m, -x.e, FALSE)

\* Python round(x) with one argument: nearest integer, ties to the even one
\* (|x| < 2^31).
Round(x) == Signed(x.s, BToNat(FRoundAbs(x)))

Zero == Double(0, << >>, 0)

\* ------------------------------------------------------------ float to text

\* x * 2^e rounded to the nearest integer, ties to the even one
BRoundShift(x, e) == IF e >= 0 THEN BShl(x, e) ELSE BShrRound(x, -e, FALSE)

\* Python round(x, 1): the decimal with one digit after the point nearest to
\* x (ties to the even digit), read back as a float; the sign is kept, so a
\* negative x that rounds to zero gives -0.0.
round1(x) ==
  LET tenths == BRoundShift(BMulSmall(x.m, 10), x.e) IN
  IF tenths = << >> THEN Double(x.s, << >>, 0)
  ELSE RoundQuotient(x.s, BDiv(BShl(tenths, 60), <<10>>), -60)

RECURSIVE BPow10(_)
BPow10(k) ==
  IF k = 0 THEN <<1>>
  ELSE IF k % 2 = 1 THEN BMulSmall(BPow10(k - 1), 10)
  ELSE LET half == BPow10(k \div 2) IN BMul(half, half)

\* The decimal digits of the natural a, the leading digit first: a holds what
\* is left to convert, ds the digits so far.
RECURSIVE BDigitSteps(_)
BDigitSteps(st) ==
  IF st.a = << >> THEN st
  ELSE LET d == BDivSmall(st.a, 10) IN
       BDigitSteps([a |-> d.q, ds |-> <<d.r>> \o st.ds])

BDigits(a) == BDigitSteps([a |-> a, ds |-> << >>]).ds

\* the text of a sequence of decimal digits
RECURSIVE Text(_)
Text(ds) == IF ds = << >> THEN "" ELSE ToString(Head(ds)) \o Text(Tail(ds))

\* The interval of the reals that round to the double x > 0, times
\* 4 * 2^max(-e, 0): its ends, x itself, and whether the ends belong to it.
Rounds(x) ==
  LET up == IF x.e > 0 THEN x.e ELSE 0
      v == BShl(x.m, up + 2)
      below == IF BBitLen(x.m) = 53 /\ BLowZero(x.m, 52) THEN BShl(<<1>>, up)
               ELSE BShl(<<1>>, up + 1)
  IN  [v |-> v, lo |-> BSub(v, below), hi |-> BAdd(v, BShl(<<1>>, up + 1)),
       closed |-> BBit(x.m, 0) = 0,
       unit |-> BShl(<<1>>, (IF x.e < 0 THEN -x.e ELSE 0) + 2)]

\* c * 10^j lies in the interval r
InRounds(r, c, j) ==
  LET scale == BPow10(IF j < 0 THEN -j ELSE 0)
      cand == BMul(c, BMul(r.unit, BPow10(IF j > 0 THEN j ELSE 0)))
      lo == BCmp(cand, BMul(r.lo, scale))
      hi == BCmp(cand, BMul(r.hi, scale))
  IN  /\ lo > 0 \/ (lo = 0 /\ r.closed)
      /\ hi < 0 \/ (hi = 0 /\ r.closed)

\* The multiples of 10^j next to x that read back as x: the nearer one
\* first (of two equally near, the even one); << >> when there is none.
Nearest(r, j) ==
  LET scale == BPow10(IF j < 0 THEN -j ELSE 0)
      denom == BMul(r.unit, BPow10(IF j > 0 THEN j ELSE 0))
      numer == BMul(r.v, scale)
      c == BDiv(numer, denom).q
      c1 == BAdd(c, <<1>>)
      down == BSub(numer, BMul(c, denom))
      upto == BSub(BMul(c1, denom), numer)
      order == BCmp(down, upto)
      first == IF order < 0 \/ (order = 0 /\ BBit(c, 0) = 0) THEN c ELSE c1
      second == IF first = c THEN c1 ELSE c
  IN  IF first # << >> /\ InRounds(r, first, j) THEN <<first>>
      ELSE IF second # << >> /\ InRounds(r, second, j) THEN <<second>>
      ELSE << >>

\* The greatest j with 10^j <= x, searched from the guess j
RECURSIVE Exponent10(_, _)
Exponent10(r, j) ==
  LET at(k) == BCmp(BMul(r.v, BPow10(IF k < 0 THEN -k ELSE 0)),
                    BMul(r.unit, BPow10(IF k > 0 THEN k ELSE 0)))
  IN  IF at(j) < 0 THEN Exponent10(r, j - 1)
      ELSE IF at(j + 1) >= 0 THEN Exponent10(r, j + 1)
      ELSE j

\* The shortest decimal c * 10^j that reads back as x: the greatest such j,
\* searched downward from j (17 digits always suffice).
RECURSIVE Shortest(_, _)
Shortest(r, j) ==
  LET c == Nearest(r, j) IN
  IF c # << >> THEN [c |-> c[1], j |-> j] ELSE Shortest(r, j - 1)

RECURSIVE Zeros(_)
Zeros(k) == IF k <= 0 THEN "" ELSE "0" \o Zeros(k - 1)

\* Python repr(x) of a float: the shortest decimal that reads back as x, in
\* positional form when its decimal point falls in -4 < decpt <= 16 and in
\* exponent form otherwise.
float_repr(x) ==
  LET sign == IF x.s = 1 THEN "-" ELSE "" IN
  IF FIsZero(x) THEN sign \o "0.0"
  ELSE LET r == Rounds(x)
           top == Exponent10(r, ((BBitLen(x.m) + x.e) * 3) \div 10)
           s == Shortest(r, top + 1)
           ds == BDigits(s.c)
           n == Len(ds)
           decpt == s.j + n
           exp == decpt - 1
       IN  IF decpt > 16 \/ decpt <= -4
           THEN sign \o ToString(ds[1])
                  \o (IF n > 1 THEN "." \o Text(Tail(ds)) ELSE "")
                  \o "e" \o (IF exp < 0 THEN "-" ELSE "+")
                  \o (IF exp > -10 /\ exp < 10 THEN "0" ELSE "")
                  \o ToString(IF exp < 0 THEN -exp ELSE exp)
           ELSE IF decpt <= 0
           THEN sign \o "0." \o Zeros(-decpt) \o Text(ds)
           ELSE IF decpt >= n
           THEN sign \o Text(ds) \o Zeros(decpt - n) \o ".0"
           ELSE sign \o Text(SubSeq(ds, 1, decpt)) \o "."
                  \o Text(SubSeq(ds, decpt + 1, n))

\* The float literals of the source and of the inputs: 0.2, 0.6, 1.0, 7.5,
\* 8.0, 60.0, 70, 100.0 and 120.0.
Lit0_2 == Float(2, 10)

Lit0_6 == Float(6, 10)

Lit1 == Num(1)

Lit7_5 == Float(15, 2)

Lit8 == Num(8)

Lit60 == Num(60)

Lit70 == Num(70)

Lit100 == Num(100)

Lit120 == Num(120)

\* Python truthiness of an optional number: not None and not zero.
Truthy(x) == NotNone(x) /\ ~FIsZero(Get(x))

\* ------------------------------------------------------------ merge engine

\* Source(str, Enum)
WHOOP == "whoop"

BODY == "body"

\* canonical metrics in SeraDailySnapshot
_METRICS ==
  << "hrv_ms", "rhr_bpm", "sleep_hours", "sleep_efficiency_pct",
     "deep_sleep_pct", "rem_sleep_pct", "sleep_consistency_pct",
     "sleep_disturbance_count", "weight_kg", "weight_lb", "bodyfat_pct",
     "hydration_pct", "recovery_score", "strain", "respiratory_rate",
     "spo2_pct" >>

MetricSet == {_METRICS[i] : i \in 1..Len(_METRICS)}

ScaleMetrics == {"weight_kg", "weight_lb", "bodyfat_pct", "hydration_pct"}

\* Fault: WHOOP listed before the scale for the scale's metrics.
WHOOP_FIRST_PRIORITY ==
  [m \in MetricSet |-> IF m \in ScaleMetrics THEN <<WHOOP, BODY>> ELSE <<WHOOP>>]

\* WHOOP is primary for most metrics; the scale is primary for weight,
\* body fat and hydration, with WHOOP as the fallback.
METRIC_SOURCE_PRIORITY ==
  [m \in MetricSet |-> IF m \in ScaleMetrics THEN <<BODY, WHOOP>> ELSE <<WHOOP>>]

\* 1 kg = 2.20462 lb
LbPerKg == Float(220462, 100000)

\* getattr(row, name, None): the column's value, None when the mapped class
\* has no such attribute.
getattr(row, name) == IF name \in DOMAIN row THEN row[name] ELSE None

\* Fault: the stage minutes divided by the hours of sleep, not by the
\* minutes of sleep.
_get_value_per_hour(src, metric, body, whoop) ==
  IF src = WHOOP
  THEN IF IsNone(whoop) THEN None
       ELSE LET w == Get(whoop) IN
         IF /\ metric \in {"deep_sleep_pct", "rem_sleep_pct"}
            /\ Truthy(w.sleep_hours)
            /\ FLess(Zero, Get(w.sleep_hours))
         THEN LET total == Get(w.sleep_hours) IN
              IF metric = "deep_sleep_pct" /\ NotNone(getattr(w, "deep_sleep_min"))
              THEN Some(FMul(FDiv(Get(w.deep_sleep_min), total), Lit100))
              ELSE IF metric = "rem_sleep_pct" /\ NotNone(getattr(w, "rem_sleep_min"))
              THEN Some(FMul(FDiv(Get(w.rem_sleep_min), total), Lit100))
              ELSE None
         ELSE IF metric = "weight_lb" /\ NotNone(getattr(w, "weight_kg"))
         THEN Some(FMul(Get(getattr(w, "weight_kg")), LbPerKg))
         ELSE getattr(w, metric)
  ELSE IF src = BODY /\ NotNone(body)
  THEN LET b == Get(body) IN
       IF metric = "weight_kg" THEN b.weight_kg
       ELSE IF metric = "weight_lb"
       THEN IF NotNone(getattr(b, "weight_lb")) THEN b.weight_lb
            ELSE IF NotNone(b.weight_kg) THEN Some(FMul(Get(b.weight_kg), LbPerKg))
            ELSE None
       ELSE IF metric = "bodyfat_pct" THEN b.body_fat_pct
       ELSE IF metric = "hydration_pct" THEN b.body_water_pct
       ELSE None
  ELSE None

\* One source's value of a metric; body and whoop are optional rows.
_get_value(src, metric, body, whoop) ==
  IF src = WHOOP
  THEN IF IsNone(whoop) THEN None
       ELSE LET w == Get(whoop) IN
         IF /\ metric \in {"deep_sleep_pct", "rem_sleep_pct"}
            /\ Truthy(w.sleep_hours)
            /\ FLess(Zero, Get(w.sleep_hours))
         THEN LET total_min == FMul(Get(w.sleep_hours), Lit60) IN
              IF metric = "deep_sleep_pct" /\ NotNone(getattr(w, "deep_sleep_min"))
              THEN Some(FMul(FDiv(Get(w.deep_sleep_min), total_min), Lit100))
              ELSE IF metric = "rem_sleep_pct" /\ NotNone(getattr(w, "rem_sleep_min"))
              THEN Some(FMul(FDiv(Get(w.rem_sleep_min), total_min), Lit100))
              ELSE None
         ELSE IF metric = "weight_lb" /\ NotNone(getattr(w, "weight_kg"))
         THEN Some(FMul(Get(getattr(w, "weight_kg")), LbPerKg))
         ELSE getattr(w, metric)
  ELSE IF src = BODY /\ NotNone(body)
  THEN LET b == Get(body) IN
       IF metric = "weight_kg" THEN b.weight_kg
       ELSE IF metric = "weight_lb"
       THEN IF NotNone(getattr(b, "weight_lb")) THEN b.weight_lb
            ELSE IF NotNone(b.weight_kg) THEN Some(FMul(Get(b.weight_kg), LbPerKg))
            ELSE None
       ELSE IF metric = "bodyfat_pct" THEN b.body_fat_pct
       ELSE IF metric = "hydration_pct" THEN b.body_water_pct
       ELSE None
  ELSE None

\* if value is not None: return value, else on to the other sources
value_or(value, others) == IF NotNone(value) THEN value ELSE others

\* The first non-null value along the metric's priority list.
RECURSIVE first_value(_, _, _, _)
first_value(srcs, metric, body, whoop) ==
  IF srcs = << >> THEN None
  ELSE value_or(_get_value(Head(srcs), metric, body, whoop),
                first_value(Tail(srcs), metric, body, whoop))

choose_metric(metric, body, whoop) ==
  first_value(METRIC_SOURCE_PRIORITY[metric], metric, body, whoop)

\* Primary keys.  An id is an opaque value the store assigns and the code
\* only copies (snapshot.whoop_id = whoop.id).  The model names a row by the
\* key its table is queried by (the date, the timestamp) and the number of
\* rows of that key inserted before it: ids are unique, keep the insertion
\* order within a key, and do not depend on the order in which rows of
\* different keys were inserted.
NextId(same_key_rows, key) == <<key, Cardinality(same_key_rows)>>

\* Insertion order of two rows of one key.
Older(r1, r2) == r1.id[2] <= r2.id[2]

\* Query.one_or_none() over the rows a filter selected.
one_or_none(rows) == IF rows = {} THEN None ELSE Some(CHOOSE r \in rows : TRUE)

\* Fault: the earliest entry of the date instead of the latest.
earliest_first(rows) ==
  IF rows = {} THEN {None}
  ELSE {Some(b) : b \in {x \in rows : \A c \in rows : x.timestamp <= c.timestamp}}

\* .order_by(BodyMetricsEntry.timestamp.desc()).first(): what the query can
\* return.  None without rows, else a row of the greatest timestamp; the
\* query has no second sort key, so among rows of equal timestamp the store
\* is free to return any of them, and may return another one the next time.
latest_first(rows) ==
  IF rows = {} THEN {None}
  ELSE {Some(b) : b \in {x \in rows : \A c \in rows : c.timestamp <= x.timestamp}}

ReadinessFields == {"readiness_index", "readiness_zone", "flags", "insight"}

\* SeraDailySnapshot(date=d): every other column NULL.
NewSnapshot(d, id) ==
  [f \in {"id", "date", "whoop_id"} \cup MetricSet \cup ReadinessFields |->
     IF f = "id" THEN id
     ELSE IF f = "date" THEN d
     ELSE None]

\* db.query(SeraDailySnapshot).filter(date == d).one_or_none()
lookup_snapshot(snaps, d) == one_or_none({s \in snaps : s.date = d})

\* Fault: a new row whatever the lookup found.
snapshot_row_always_new(found, snaps, d) ==
  NewSnapshot(d, NextId({s \in snaps : s.date = d}, d))

\* if snapshot is None: snapshot = SeraDailySnapshot(date=d); db.add(snapshot)
snapshot_row(found, snaps, d) ==
  IF IsNone(found)
  THEN NewSnapshot(d, NextId({s \in snaps : s.date = d}, d))
  ELSE Get(found)

\* Fault: no early return.
never_no_source_data(body, whoop) == FALSE

\* Fault: the early return taken whenever the WHOOP row is missing.
no_whoop_data(body, whoop) == IsNone(whoop)

\* if body is None and whoop is None: return None
no_source_data(body, whoop) == IsNone(body) /\ IsNone(whoop)

\* Fault: an additive merge, which keeps the old value of a metric no
\* source supplies.
assign_merged_additive(snapshot, values, whoop) ==
  [f \in DOMAIN snapshot |->
     IF f \in MetricSet
     THEN (IF NotNone(values[f]) THEN values[f] ELSE snapshot[f])
     ELSE IF f = "whoop_id"
     THEN (IF NotNone(whoop) THEN Some(Get(whoop).id) ELSE None)
     ELSE snapshot[f]]

\* Fault: a merge that also resets the readiness columns.
assign_merged_reset(snapshot, values, whoop) ==
  [f \in DOMAIN snapshot |->
     IF f \in MetricSet THEN values[f]
     ELSE IF f = "whoop_id"
     THEN (IF NotNone(whoop) THEN Some(Get(whoop).id) ELSE None)
     ELSE IF f \in ReadinessFields THEN None
     ELSE snapshot[f]]

\* The assignments of merge_for_date to the snapshot row: all 16 raw metrics
\* and whoop_id; nothing else.
assign_merged(snapshot, values, whoop) ==
  [f \in DOMAIN snapshot |->
     IF f \in MetricSet THEN values[f]
     ELSE IF f = "whoop_id"
     THEN (IF NotNone(whoop) THEN Some(Get(whoop).id) ELSE None)
     ELSE snapshot[f]]

\* Python == of two optional numbers: None equals None only, and numbers
\* compare by value (0.0 == -0.0).
num_eq(a, b) == IF IsNone(a) \/ IsNone(b) THEN a = b ELSE FEq(Get(a), Get(b))

\* Python == of two flags payloads (or None): dicts compare key by key.
json_eq(p, q) ==
  IF IsNone(p) \/ IsNone(q) THEN p = q
  ELSE LET x == Get(p)
           y == Get(q)
       IN  /\ x.flags = y.flags
           /\ \A k \in {"sleep_debt_hours", "hrv_baseline", "sleep_baseline",
                         "strain_baseline", "recovery_baseline",
                         "hrv_trend_pct", "sleep_trend_pct"} : num_eq(x[k], y[k])
           /\ \A k \in {"hrv", "sleep", "recovery"} :
                num_eq(x.signal_scores[k], y.signal_scores[k])

\* The columns that hold no number: keys, timestamps, strings and JSON.
PlainColumns ==
  {"id", "date", "whoop_id", "as_of_date", "timestamp", "readiness_zone", "insight",
   "sleep_id", "cycle_id"}

\* Whether the unit of work finds no net change in column f of a row it
\* loaded with the value `old` and that now holds `new`: it compares with ==.
no_net_change(f, old, new) ==
  IF f \in PlainColumns THEN old = new
  ELSE IF f = "flags" THEN json_eq(old, new)
  ELSE num_eq(old, new)

\* The UPDATE of a flush, on the row as it is stored now: SET names only the
\* columns that changed since the session loaded the row.
update_row(stored, loaded, row) ==
  [f \in DOMAIN stored |->
     IF no_net_change(f, loaded[f], row[f]) THEN stored[f] ELSE row[f]]

\* The outcome of a merge that assigned `merged` to the row `snapshot`: an
\* INSERT of the row the session added, or the UPDATE of the row it loaded.
merged_rows(snapshot, merged, body, snaps) ==
  [ret |-> Some(merged),
   snaps |-> IF snapshot \in snaps
             THEN (snaps \ {snapshot}) \cup {update_row(snapshot, snapshot, merged)}
             ELSE snaps \cup {merged},
   body |-> body]

\* merge_for_date(db, d) once its first two queries returned `whoop` and
\* `body`: the returned snapshot (or None), the snapshot table as the flush
\* of the session will leave it, and the scale entry read.
merge_rows(whoop, body, snaps, d) ==
  IF no_source_data(body, whoop)
  THEN [ret |-> None, snaps |-> snaps, body |-> body]
  ELSE LET snapshot == snapshot_row(lookup_snapshot(snaps, d), snaps, d) IN
       merged_rows(snapshot,
                   assign_merged(snapshot,
                                 [m \in MetricSet |-> choose_metric(m, body, whoop)],
                                 whoop),
                   body, snaps)

\* merge_for_date(db, d) on the rows the session's queries see: its possible
\* outcomes, one for each scale entry the body query can return.
merge_for_date(wd, bm, snaps, d) ==
  {merge_rows(one_or_none({w \in wd : w.date = d}), body, snaps, d) :
     body \in latest_first({b \in bm : b.date = d})}

\* ------------------------------------------------------------ readiness engine

\* The rows of a query ordered by date ascending (ties by id).
RECURSIVE order_by_date(_)
order_by_date(rows) ==
  IF rows = {} THEN << >>
  ELSE LET r == CHOOSE x \in rows : \A y \in rows :
                  x.date < y.date \/ (x.date = y.date /\ Older(x, y))
       IN  <<r>> \o order_by_date(rows \ {r})

\* [v for v in values if v is not None]
RECURSIVE not_none(_)
not_none(values) ==
  IF values = << >> THEN << >>
  ELSE IF NotNone(Head(values)) THEN <<Get(Head(values))>> \o not_none(Tail(values))
  ELSE not_none(Tail(values))

\* sum(nums) of Python 3.11: the elements added one by one, left to right,
\* starting from 0
RECURSIVE sum_from(_, _)
sum_from(start, nums) ==
  IF nums = << >> THEN start ELSE sum_from(FAdd(start, Head(nums)), Tail(nums))

sum(nums) == sum_from(Zero, nums)

_avg(values) ==
  LET nums == not_none(values) IN
  IF nums = << >> THEN None ELSE Some(FDiv(sum(nums), Num(Len(nums))))

\* timedelta(days=7)
LookbackDays == 7

\* Fault: a window that includes the date itself.
history_of_inclusive(snaps, d) ==
  order_by_date({s \in snaps : s.date >= d - LookbackDays /\ s.date <= d})

\* The snapshots dated in [d - 7 days, d), ascending by date.
history_of(snaps, d) ==
  order_by_date({s \in snaps : s.date >= d - LookbackDays /\ s.date < d})

column(rows, name) == [i \in 1..Len(rows) |-> rows[i][name]]

sleep_target == Lit8

\* max(0.0, min(x, hi))
clamp0(x, hi) == FMax(Zero, FMin(x, hi))

\* "; ".join(bits)
RECURSIVE join(_)
join(bits) ==
  IF Len(bits) = 1 THEN bits[1] ELSE bits[1] \o "; " \o join(Tail(bits))

\* Fault: a missing sleep duration counted as 0 hours of sleep.
compute_flags_null_as_zero(snap, hrv_baseline) ==
  (IF /\ NotNone(snap.hrv_ms) /\ NotNone(hrv_baseline)
      /\ FLess(Get(snap.hrv_ms), Get(hrv_baseline))
   THEN <<"hrv_low">> ELSE << >>)
  \o (IF FLess(Lit1, FMax(Zero, FSub(Lit8,
                 IF NotNone(snap.sleep_hours) THEN Get(snap.sleep_hours) ELSE Zero)))
      THEN <<"sleep_debt">> ELSE << >>)
  \o (IF NotNone(snap.recovery_score) /\ FLess(Get(snap.recovery_score), Lit70)
      THEN <<"recovery_low">> ELSE << >>)

\* Fault: recovery_low triggered at 70 as well.
compute_flags_inclusive(snap, hrv_baseline) ==
  (IF /\ NotNone(snap.hrv_ms) /\ NotNone(hrv_baseline)
      /\ FLess(Get(snap.hrv_ms), Get(hrv_baseline))
   THEN <<"hrv_low">> ELSE << >>)
  \o (IF /\ NotNone(snap.sleep_hours)
         /\ FLess(Lit1, FMax(Zero, FSub(Lit8, Get(snap.sleep_hours))))
      THEN <<"sleep_debt">> ELSE << >>)
  \o (IF NotNone(snap.recovery_score) /\ FLeq(Get(snap.recovery_score), Lit70)
      THEN <<"recovery_low">> ELSE << >>)

\* flags, in the order the code appends them
compute_flags(snap, hrv_baseline) ==
  (IF /\ NotNone(snap.hrv_ms) /\ NotNone(hrv_baseline)
      /\ FLess(Get(snap.hrv_ms), Get(hrv_baseline))
   THEN <<"hrv_low">> ELSE << >>)
  \o (IF /\ NotNone(snap.sleep_hours)
         /\ FLess(Lit1, FMax(Zero, FSub(sleep_target, Get(snap.sleep_hours))))
      THEN <<"sleep_debt">> ELSE << >>)
  \o (IF NotNone(snap.recovery_score) /\ FLess(Get(snap.recovery_score), Lit70)
      THEN <<"recovery_low">> ELSE << >>)

\* Fault: red for exactly two flags only.
compute_zone_exact(flags) ==
  IF Len(flags) = 2 THEN "red" ELSE IF Len(flags) = 1 THEN "yellow" ELSE "green"

compute_zone(flags) ==
  IF Len(flags) >= 2 THEN "red" ELSE IF Len(flags) = 1 THEN "yellow" ELSE "green"

\* Fault: a trend of 0 against a baseline of 0, in place of no trend.
trend_pct_zero_baseline(today, baseline) ==
  IF NotNone(today) /\ NotNone(baseline)
  THEN (IF FIsZero(Get(baseline)) THEN Some(Zero)
        ELSE Some(FMul(FDiv(FSub(Get(today), Get(baseline)), Get(baseline)), Lit100)))
  ELSE None

\* Fault: today's value tested for truth, so that a value of 0 has no trend.
trend_pct_truthy(today, baseline) ==
  IF Truthy(today) /\ Truthy(baseline)
  THEN Some(FMul(FDiv(FSub(Get(today), Get(baseline)), Get(baseline)), Lit100))
  ELSE None

\* ((today - baseline) / baseline) * 100.0, None unless today is not None and
\* baseline not in (None, 0)
trend_pct(today, baseline) ==
  IF NotNone(today) /\ Truthy(baseline)
  THEN Some(FMul(FDiv(FSub(Get(today), Get(baseline)), Get(baseline)), Lit100))
  ELSE None

\* Fault: a recovery component smoothed with the readiness index stored by
\* the previous computation.
recovery_component_smoothed(snap) ==
  LET rc == IF Truthy(snap.recovery_score) THEN Get(snap.recovery_score) ELSE Zero IN
  IF NotNone(snap.readiness_index)
  THEN FDiv(FAdd(rc, Get(snap.readiness_index)), Num(2))
  ELSE rc

\* float(snap.recovery_score or 0.0)
recovery_component_of(snap) ==
  IF Truthy(snap.recovery_score) THEN Get(snap.recovery_score) ELSE Zero

\* Fault: an HRV component that falls back to 0.
hrv_component_zero_fallback(snap, hrv_baseline) ==
  IF NotNone(snap.hrv_ms) /\ Truthy(hrv_baseline)
  THEN clamp0(FMul(FDiv(Get(snap.hrv_ms), Get(hrv_baseline)), Lit100), Lit120)
  ELSE Zero

hrv_component_of(snap, hrv_baseline) ==
  IF NotNone(snap.hrv_ms) /\ Truthy(hrv_baseline)
  THEN clamp0(FMul(FDiv(Get(snap.hrv_ms), Get(hrv_baseline)), Lit100), Lit120)
  ELSE recovery_component_of(snap)

sleep_component_of(snap) ==
  IF NotNone(snap.sleep_hours)
  THEN clamp0(FMul(FDiv(Get(snap.sleep_hours), sleep_target), Lit100), Lit120)
  ELSE recovery_component_of(snap)

\* Fault: the weighted sum without its clamp.
readiness_index_unclamped(rc, hc, sc) ==
  Trunc(FAdd(FAdd(FMul(Lit0_6, rc), FMul(Lit0_2, hc)),
             FMul(Lit0_2, sc)))

\* int(max(0.0, min(0.6 * rc + 0.2 * hc + 0.2 * sc, 100.0)))
readiness_index_of(rc, hc, sc) ==
  Trunc(clamp0(FAdd(FAdd(FMul(Lit0_6, rc), FMul(Lit0_2, hc)),
                    FMul(Lit0_2, sc)),
               Lit100))

\* Fault: the recovery clause first.
insight_recovery_first(flags) ==
  LET has(f) == \E i \in 1..Len(flags) : flags[i] = f
      insight_bits ==
        (IF has("recovery_low") THEN <<"recovery score < 70">> ELSE << >>)
        \o (IF has("hrv_low") THEN <<"HRV below 7-day baseline">> ELSE << >>)
        \o (IF has("sleep_debt") THEN <<"sleep debt > 1h (target 8h)">> ELSE << >>)
  IN  IF insight_bits # << >> THEN join(insight_bits)
      ELSE "All primary signals within normal range."

insight_of(flags) ==
  LET has(f) == \E i \in 1..Len(flags) : flags[i] = f
      insight_bits ==
        (IF has("hrv_low") THEN <<"HRV below 7-day baseline">> ELSE << >>)
        \o (IF has("sleep_debt") THEN <<"sleep debt > 1h (target 8h)">> ELSE << >>)
        \o (IF has("recovery_low") THEN <<"recovery score < 70">> ELSE << >>)
  IN  IF insight_bits # << >> THEN join(insight_bits)
      ELSE "All primary signals within normal range."

\* repr(round(x, 1)) of a float
repr_round1(x) == float_repr(round1(x))

\* _format_trend(pct) of the readiness responses: sign = "+" if pct >= 0
\* else "", then repr(round(pct, 1)) and "%".  The float -0.0 is >= 0 and its
\* repr is "-0.0", so it prints as "+-0.0%".
_format_trend(pct) ==
  IF IsNone(pct) THEN "n/a"
  ELSE LET sign == IF FLeq(Zero, Get(pct)) THEN "+" ELSE "" IN
       sign \o repr_round1(Get(pct)) \o "%"

\* The four columns from the baselines (of hrv, sleep, strain and recovery),
\* the flags and the three components.
readiness_columns(snap, baseline, flags, recovery_component, hrv_component, sleep_component) ==
  [readiness_index |->
     Some(Num(readiness_index_of(recovery_component, hrv_component,
                                 sleep_component))),
   readiness_zone |-> Some(compute_zone(flags)),
   flags |-> Some(
     [flags |-> flags,
      sleep_debt_hours |->
        IF NotNone(snap.sleep_hours)
        THEN Some(FMax(Zero, FSub(sleep_target, Get(snap.sleep_hours))))
        ELSE None,
      hrv_baseline |-> baseline.hrv,
      sleep_baseline |-> baseline.sleep,
      strain_baseline |-> baseline.strain,
      recovery_baseline |-> baseline.recovery,
      hrv_trend_pct |-> trend_pct(snap.hrv_ms, baseline.hrv),
      sleep_trend_pct |-> trend_pct(snap.sleep_hours, baseline.sleep),
      signal_scores |->
        [hrv |-> Some(Num(Round(hrv_component))),
         sleep |-> Some(Num(Round(sleep_component))),
         recovery |-> IF NotNone(snap.recovery_score)
                      THEN Some(Num(Trunc(Get(snap.recovery_score))))
                      ELSE None]]),
   insight |-> Some(insight_of(flags))]

\* The four columns from the snapshot of the date and the four baselines.
readiness_from(snap, hrv_baseline, sleep_baseline, strain_baseline, recovery_baseline) ==
  readiness_columns(snap,
                    [hrv |-> hrv_baseline, sleep |-> sleep_baseline,
                     strain |-> strain_baseline, recovery |-> recovery_baseline],
                    compute_flags(snap, hrv_baseline),
                    recovery_component_of(snap),
                    hrv_component_of(snap, hrv_baseline),
                    sleep_component_of(snap))

\* The four columns compute_readiness_for_date assigns, from the snapshot of
\* the date and the history rows.
readiness_of(snap, history) ==
  readiness_from(snap,
                 _avg(column(history, "hrv_ms")),
                 _avg(column(history, "sleep_hours")),
                 _avg(column(history, "strain")),
                 _avg(column(history, "recovery_score")))

\* The assignments of compute_readiness_for_date to the snapshot row.
assign_readiness(snap, r) ==
  [f \in DOMAIN snap |-> IF f \in ReadinessFields THEN r[f] ELSE snap[f]]

\* Fault: a readiness computation that creates the snapshot it misses.
compute_readiness_creating(snaps, d) ==
  LET found == lookup_snapshot(snaps, d)
      snap == IF IsNone(found)
              THEN NewSnapshot(d, NextId({s \in snaps : s.date = d}, d))
              ELSE Get(found)
      updated == assign_readiness(snap, readiness_of(snap, history_of(snaps, d)))
  IN  [ret |-> Some(updated),
       snaps |-> (snaps \ {snap}) \cup {update_row(snap, snap, updated)}]

\* Fault: a readiness computation that also clears the readiness columns of
\* the history rows it read.
compute_readiness_clearing_history(snaps, d) ==
  LET found == lookup_snapshot(snaps, d) IN
  IF IsNone(found) THEN [ret |-> None, snaps |-> snaps]
  ELSE LET snap == Get(found)
           history == history_of(snaps, d)
           read == {history[i] : i \in 1..Len(history)}
           updated == assign_readiness(snap, readiness_of(snap, history))
           cleared == {[f \in DOMAIN h |-> IF f \in ReadinessFields THEN None ELSE h[f]] :
                         h \in read}
       IN  [ret |-> Some(updated),
            snaps |-> ((snaps \ read) \ {snap}) \cup cleared
                        \cup {update_row(snap, snap, updated)}]

\* compute_readiness_for_date(db, d) on the snapshot rows its two queries
\* return: None when the date has no row; else the row of the date with the
\* four columns assigned, as the UPDATE of the flush writes it (SET names the
\* columns whose value changed), and the rows with that row in place.  The
\* db.commit() and the db.refresh(snap) of the function are steps of the
\* handler that calls it (commit, refresh).
compute_readiness_for_date(snaps, d) ==
  LET found == lookup_snapshot(snaps, d) IN
  IF IsNone(found) THEN [ret |-> None, snaps |-> snaps]
  ELSE LET snap == Get(found)
           updated == update_row(snap, snap,
                                 assign_readiness(snap, readiness_of(snap, history_of(snaps, d))))
       IN  [ret |-> Some(updated), snaps |-> (snaps \ {snap}) \cup {updated}]

\* ------------------------------------------------------------ inputs

\* The calendar dates of the requests, as day numbers: 9 - 7 = 2 is the first
\* day of the look-back window of day 9 and day 1 lies just before it.
Dates == {1, 2, 9}

\* The date texts of the requests and the day number of the date each one
\* denotes (day 1 is 2024-01-01).  Python 3.11 reads the basic format
\* YYYYMMDD as well, so two texts denote day 9.
Calendar ==
  [text \in {"2024-01-01", "2024-01-02", "2024-01-08", "2024-01-09", "20240109"} |->
     IF text = "2024-01-01" THEN 1
     ELSE IF text = "2024-01-02" THEN 2
     ELSE IF text = "2024-01-08" THEN 8
     ELSE 9]

\* A text that is no ISO date: there is no month 13.
NoDate == "2024-13-01"

\* DateType.fromisoformat(text): the date, or None where Python raises
\* ValueError.
fromisoformat(text) ==
  IF text \in DOMAIN Calendar THEN Some(Calendar[text]) ELSE None

\* The texts a client may send for the dates of a run, and the malformed one.
DateTexts(dates) == {text \in DOMAIN Calendar : Calendar[text] \in dates} \cup {NoDate}

\* The timestamps (hour numbers) of the scale measurements: a morning and
\* an evening reading on day 9 and a morning reading on day 2.
Timestamps == {24 * 2 + 8, 24 * 9 + 8, 24 * 9 + 20}

\* The most ingestion requests (WHOOP ingest or import, scale batch) of a run.
MaxIngest == 2

N(i) == Some(Num(i))

\* WhoopIn without its date and raw_payload.
WhoopIn(rs, hrv, rhr, rr, sh, eff, deep, rem, st, spo2) ==
  [recovery_score |-> rs, hrv_ms |-> hrv, rhr_bpm |-> rhr,
   respiratory_rate |-> rr, sleep_hours |-> sh, sleep_efficiency_pct |-> eff,
   deep_sleep_min |-> deep, rem_sleep_min |-> rem, strain |-> st,
   avg_hr_day |-> None, avg_hr_sleep |-> None, spo2_pct |-> spo2]

WhoopPayloads ==
  { WhoopIn(N(80), N(60), N(52), N(15), Some(Lit7_5), N(90), None, None, N(10), N(97)),
    WhoopIn(N(69), N(45), None, None, N(8), None, N(96), N(120), None, None),
    WhoopIn(N(1000), N(0), N(0), None, N(100000), None, N(30), None, N(100000), None),
    WhoopIn(N(-50), N(-10), None, None, N(0), None, N(30), N(30), N(-3), None) }

\* BodyMetricsIn: the timestamp (an hour number) and the columns the merge
\* engine reads; the other columns are stored and never read by the core.
BodyMetricsIn(ts, kg, lb, fat, water) ==
  [timestamp |-> ts, weight_kg |-> kg, weight_lb |-> lb,
   body_fat_pct |-> fat, body_water_pct |-> water]

Measurements ==
  UNION { { BodyMetricsIn(ts, N(70), None, N(20), N(55)),
            BodyMetricsIn(ts, None, N(150), None, None) }
          : ts \in Timestamps }

\* BodyMetricsBatchIn.measurements
Batches == {<<m>> : m \in Measurements}

\* What import_whoop_daily meets at the WHOOP API for one date: whether the
\* credentials file holds an access token, the status of the recovery
\* response, the request that raises ("-" when none does: "recovery",
\* "sleep", "cycle", "workout" or "body"), and from the responses that
\* arrive the summary values of the day and the body-measurement object.
\* The responses after the recovery one answer 200; the day has one
\* recovery, one sleep and one cycle record and no workout, and the profile
\* response names no user.
Import(credentials, recovery_status, raises) ==
  [credentials |-> credentials, recovery_status |-> recovery_status,
   raises |-> raises,
   recovery_score |-> N(70), hrv_ms |-> N(50), rhr_bpm |-> N(55),
   spo2_pct |-> None, sleep_hours |-> N(7), strain |-> N(12),
   body |-> Some([weight_kilogram |-> N(71)])]

Fetched ==
  { Import(TRUE, 200, "-"), Import(FALSE, 200, "-"), Import(TRUE, 429, "-"),
    Import(TRUE, 401, "-"), Import(TRUE, 200, "recovery"),
    Import(TRUE, 200, "sleep"), Import(TRUE, 200, "cycle"),
    Import(TRUE, 200, "workout"), Import(TRUE, 200, "body") }

\* The id the WHOOP API gives the sleep record of a day, and the cycle.
sleep_id(d) == <<"sleep", d>>

cycle_id(d) == <<"cycle", d>>

\* ------------------------------------------------------------ state

\* The requests served at a time: a handler is a plain function the server
\* runs on a worker thread, on a session of its own.
Slots == {1, 2}

VARIABLES
  engine,                  \* app.core.db.engine: None without POSTGRES_DSN
  whoop_daily,             \* rows of WhoopDaily
  whoop_recovery_daily,    \* rows of WhoopRecoveryDaily
  whoop_sleep_activity,    \* rows of WhoopSleepActivity
  whoop_cycle_daily,       \* rows of WhoopCycleDaily
  whoop_body_measurement,  \* rows of WhoopBodyMeasurement
  body_metrics,            \* rows of BodyMetricsEntry
  sera_daily_snapshot,     \* rows of SeraDailySnapshot
  ingested,                \* the number of requests counted so far
  sessions,                \* the request of each slot and its session
  last                     \* the request that took the latest step

Tables ==
  <<whoop_daily, whoop_recovery_daily, whoop_sleep_activity, whoop_cycle_daily,
    whoop_body_measurement, body_metrics, sera_daily_snapshot>>

vars == <<engine, Tables, ingested, sessions, last>>

\* The committed rows, by table name.
Store ==
  [whoop_daily |-> whoop_daily, whoop_recovery_daily |-> whoop_recovery_daily,
   whoop_sleep_activity |-> whoop_sleep_activity,
   whoop_cycle_daily |-> whoop_cycle_daily,
   whoop_body_measurement |-> whoop_body_measurement,
   body_metrics |-> body_metrics, sera_daily_snapshot |-> sera_daily_snapshot]

\* The columns merge_for_date assigns, in the order of its assignments.
MergeAssignments == _METRICS \o <<"whoop_id">>

\* The columns compute_readiness_for_date assigns, in the order of its
\* assignments.
ReadinessAssignments == <<"readiness_index", "readiness_zone", "flags", "insight">>

\* The tables import_whoop_daily writes besides whoop_daily.
ImportTables ==
  {"whoop_recovery_daily", "whoop_sleep_activity", "whoop_cycle_daily",
   "whoop_body_measurement"}

\* A request and its session.  op, d, data: the handler, its date (0 when
\* it has none) and its payload.  pc: the statement or the WHOOP response
\* the handler waits on ("idle" before any request, "done" after the
\* response).  status, error:
\* the HTTP status of the response (0 while the request is in flight) and
\* the exception that ended it ("-" when none did).  merged, computed: what
\* merge_for_date and compute_readiness_for_date returned ("-" when not
\* called).  whoop, whoop_loaded, whoop_pending: the WhoopDaily row the
\* handler wrote, that row as loaded (None for a row it added), and whether
\* it added it.  seen, body: the WHOOP row and the scale entry the merge
\* read.  row, row_loaded, created, cleared: the snapshot row the session
\* holds, that row as loaded, whether the session added it, and whether
\* the merge replaced a non-null raw metric by null.  ret: the row the core
\* function holds after its assignments, and after db.refresh the row
\* read back.  todo: the columns still to assign.  others: changes
\* to other snapshot rows.  added: the rows written to the import's tables.
\* before: the committed tables when the assignments began.
Idle ==
  [op |-> "none", d |-> 0, data |-> None, pc |-> "idle", status |-> 0,
   error |-> "-", merged |-> "-", computed |-> "-",
   whoop |-> None, whoop_loaded |-> None, whoop_pending |-> FALSE,
   seen |-> None, body |-> None,
   row |-> None, row_loaded |-> None, created |-> FALSE, cleared |-> FALSE,
   ret |-> None, todo |-> << >>, others |-> {},
   added |-> [t \in ImportTables |-> {}], before |-> None]

\* A request that ended in an exception before it read or wrote anything.
Raised(op, status, error) ==
  [Idle EXCEPT !.op = op, !.pc = "done", !.status = status, !.error = error]

\* A request that goes on to its first statement.
Accepted(op, d, data, pc) ==
  [Idle EXCEPT !.op = op, !.d = d, !.data = data, !.pc = pc]

\* A UniqueConstraint over the given columns.
unique(rows, columns) ==
  \A r1, r2 \in rows : (\A c \in columns : r1[c] = r2[c]) => r1 = r2

\* Fault: a store without the unique constraints.
commit_unchecked(tables) == TRUE

\* db.commit(): the flush fails with an IntegrityError when a unique
\* constraint is broken, and the session's changes are then lost.
commit_ok(tables) ==
  /\ unique(tables.whoop_daily, {"date"})
  /\ unique(tables.whoop_recovery_daily, {"date"})
  /\ unique(tables.whoop_sleep_activity, {"sleep_id"})
  /\ unique(tables.whoop_cycle_daily, {"date", "cycle_id"})
  /\ unique(tables.sera_daily_snapshot, {"date"})

Init ==
  /\ engine \in {None, Some("postgresql")}
  /\ whoop_daily = {}
  /\ whoop_recovery_daily = {}
  /\ whoop_sleep_activity = {}
  /\ whoop_cycle_daily = {}
  /\ whoop_body_measurement = {}
  /\ body_metrics = {}
  /\ sera_daily_snapshot = {}
  /\ ingested = 0
  /\ sessions = [i \in Slots |-> Idle]
  /\ last = Idle

\* ------------------------------------------------------------ handlers

\* A step of a handler is one wait (a SELECT, the flush and COMMIT, the
\* SELECT of a db.refresh, or a request to the WHOOP API) with the Python
\* code that follows it up to the next wait; the arrival of a request is the
\* code before its first wait.  Between two steps of a request the other
\* slot can take steps of its own.

\* for field, value in data.items(): setattr(existing, field, value)
set_fields(row, data) ==
  [f \in DOMAIN row |-> IF f \in DOMAIN data THEN data[f] ELSE row[f]]

\* WhoopDaily(date=d, **data)
new_whoop_row(id, d, data) ==
  [f \in {"id", "date"} \cup DOMAIN data |->
     IF f = "id" THEN id ELSE IF f = "date" THEN d ELSE data[f]]

\* A request arrives in a free slot and runs up to its first statement.
begin(i, session) ==
  /\ sessions[i].pc \in {"idle", "done", "aborted"}
  /\ sessions' = [sessions EXCEPT ![i] = session]
  /\ last' = session
  /\ UNCHANGED <<engine, Tables>>

\* The request of slot i moves on; nothing is written to the database.
step(i, session) ==
  /\ sessions' = [sessions EXCEPT ![i] = session]
  /\ last' = session
  /\ UNCHANGED <<engine, Tables, ingested>>

\* POST /whoop before its first query: _ensure_db() answers 503 when engine
\* is None, and the date text is parsed inside the try block that has no
\* except clause, so a ValueError reaches the client as a 500.
ingest_whoop(i, text, data) ==
  begin(i, IF IsNone(engine)
           THEN Raised("ingest_whoop", 503, "HTTPException")
           ELSE IF IsNone(fromisoformat(text))
           THEN Raised("ingest_whoop", 500, "ValueError")
           ELSE Accepted("ingest_whoop", Get(fromisoformat(text)), Some(data),
                         "existing"))

\* GET /whoop/import/daily before its first request to the WHOOP API: the
\* date text and the credentials file.
import_whoop_daily(i, text, f) ==
  begin(i, IF IsNone(engine)
           THEN Raised("import_whoop_daily", 503, "HTTPException")
           ELSE IF IsNone(fromisoformat(text))
           THEN Raised("import_whoop_daily", 400, "HTTPException")
           ELSE IF ~f.credentials
           THEN Raised("import_whoop_daily", 500, "HTTPException")
           ELSE Accepted("import_whoop_daily", Get(fromisoformat(text)), Some(f),
                         "recovery_resp"))

\* POST /body-metrics/ingest and /body-metrics/ingest/screenshot before the
\* commit: get_db() calls SessionLocal, which is None without POSTGRES_DSN.
ingest_body_metrics(i, batch) ==
  begin(i, IF IsNone(engine)
           THEN Raised("ingest_body_metrics", 500, "TypeError")
           ELSE Accepted("ingest_body_metrics", 0, Some(batch), "commit"))

\* GET /snapshot/daily/{date} before its first query
get_snapshot_by_date(i, text) ==
  begin(i, IF IsNone(engine)
           THEN Raised("get_snapshot_by_date", 503, "HTTPException")
           ELSE IF IsNone(fromisoformat(text))
           THEN Raised("get_snapshot_by_date", 400, "HTTPException")
           ELSE Accepted("get_snapshot_by_date", Get(fromisoformat(text)), None,
                         "whoop"))

\* GET /snapshot/latest before its first query
get_latest_snapshot(i) ==
  begin(i, IF IsNone(engine)
           THEN Raised("get_latest_snapshot", 503, "HTTPException")
           ELSE Accepted("get_latest_snapshot", 0, None, "latest"))

\* GET /readiness/by-date/{date} before its first query
get_readiness_for_date(i, text) ==
  begin(i, IF IsNone(engine)
           THEN Raised("get_readiness_for_date", 503, "HTTPException")
           ELSE IF IsNone(fromisoformat(text))
           THEN Raised("get_readiness_for_date", 400, "HTTPException")
           ELSE Accepted("get_readiness_for_date", Get(fromisoformat(text)), None,
                         "row"))

\* GET /readiness/latest before its first query
get_readiness_latest(i) ==
  begin(i, IF IsNone(engine)
           THEN Raised("get_readiness_latest", 503, "HTTPException")
           ELSE Accepted("get_readiness_latest", 0, None, "latest"))

\* A row a session holds: the row as loaded (None for a row it added) and
\* the row as it is now.
upsert(found, row) == [loaded |-> found, row |-> row]

\* import_whoop_daily: the recovery request and the check of its status.
\* The client.get calls of the recovery, sleep, cycle and workout requests
\* stand in the try block that has no except clause, so an exception of
\* theirs reaches the client as a 500.
recovery_resp(i) ==
  LET s == sessions[i]
      f == Get(s.data)
  IN  /\ s.pc = "recovery_resp"
      /\ step(i, IF f.raises = "recovery"
                 THEN [s EXCEPT !.pc = "done", !.status = 500, !.error = "HTTPError"]
                 ELSE IF f.recovery_status # 200
                 THEN [s EXCEPT !.pc = "done", !.status = f.recovery_status,
                                !.error = "HTTPException"]
                 ELSE [s EXCEPT !.pc = "recovery"])

\* import_whoop_daily: the query for the recovery row of the date and the
\* assignments to the row found or added.
select_recovery(i) ==
  LET s == sessions[i]
      f == Get(s.data)
      found == one_or_none({r \in whoop_recovery_daily : r.date = s.d})
      row == [id |-> IF IsNone(found) THEN NextId({}, s.d) ELSE Get(found).id,
              date |-> s.d, recovery_score |-> f.recovery_score,
              resting_heart_rate |-> f.rhr_bpm, hrv_rmssd_milli |-> f.hrv_ms,
              spo2_percentage |-> f.spo2_pct]
  IN  /\ s.pc = "recovery"
      /\ step(i, [s EXCEPT !.added.whoop_recovery_daily = {upsert(found, row)},
                           !.pc = "sleep_resp"])

\* import_whoop_daily: the sleep request.
sleep_resp(i) ==
  LET s == sessions[i] IN
  /\ s.pc = "sleep_resp"
  /\ step(i, IF Get(s.data).raises = "sleep"
             THEN [s EXCEPT !.pc = "done", !.status = 500, !.error = "HTTPError"]
             ELSE [s EXCEPT !.pc = "sleep"])

\* import_whoop_daily: the query for the sleep record by its sleep_id and
\* the assignments (the date of a row found is left as it is).
select_sleep(i) ==
  LET s == sessions[i]
      found == one_or_none({r \in whoop_sleep_activity : r.sleep_id = sleep_id(s.d)})
      row == IF IsNone(found)
             THEN [id |-> NextId({}, sleep_id(s.d)), sleep_id |-> sleep_id(s.d),
                   date |-> s.d, cycle_id |-> cycle_id(s.d)]
             ELSE [Get(found) EXCEPT !.cycle_id = cycle_id(s.d)]
  IN  /\ s.pc = "sleep"
      /\ step(i, [s EXCEPT !.added.whoop_sleep_activity = {upsert(found, row)},
                           !.pc = "cycle_resp"])

\* import_whoop_daily: the cycle request.
cycle_resp(i) ==
  LET s == sessions[i] IN
  /\ s.pc = "cycle_resp"
  /\ step(i, IF Get(s.data).raises = "cycle"
             THEN [s EXCEPT !.pc = "done", !.status = 500, !.error = "HTTPError"]
             ELSE [s EXCEPT !.pc = "cycle"])

\* import_whoop_daily: the query for the cycle record by date and cycle_id
\* and the assignments.
select_cycle(i) ==
  LET s == sessions[i]
      f == Get(s.data)
      found == one_or_none({r \in whoop_cycle_daily :
                              r.date = s.d /\ r.cycle_id = cycle_id(s.d)})
      row == [id |-> IF IsNone(found) THEN NextId({}, <<s.d, cycle_id(s.d)>>)
                     ELSE Get(found).id,
              date |-> s.d, cycle_id |-> cycle_id(s.d), strain |-> f.strain]
  IN  /\ s.pc = "cycle"
      /\ step(i, [s EXCEPT !.added.whoop_cycle_daily = {upsert(found, row)},
                           !.pc = "workout_resp"])

\* import_whoop_daily: the workout request; its answer holds no record, so
\* no query follows.
workout_resp(i) ==
  LET s == sessions[i] IN
  /\ s.pc = "workout_resp"
  /\ step(i, IF Get(s.data).raises = "workout"
             THEN [s EXCEPT !.pc = "done", !.status = 500, !.error = "HTTPError"]
             ELSE [s EXCEPT !.pc = "body_resp"])

\* import_whoop_daily: the body-measurement request and the db.add of
\* WhoopBodyMeasurement(as_of_date=d, ...); the request stands in a try
\* block of its own that ignores every exception.
body_resp(i) ==
  LET s == sessions[i]
      f == Get(s.data)
  IN  /\ s.pc = "body_resp"
      /\ step(i, [s EXCEPT !.added.whoop_body_measurement =
                             IF f.raises # "body" /\ NotNone(f.body)
                             THEN {upsert(None, [id |-> NextId({}, s.d), as_of_date |-> s.d,
                                                 weight_kilogram |-> Get(f.body).weight_kilogram])}
                             ELSE {},
                           !.pc = "profile_resp"])

\* import_whoop_daily: the profile request, in a try block that ignores
\* every exception; an answer without user_id is followed by no query.
profile_resp(i) ==
  LET s == sessions[i] IN
  /\ s.pc = "profile_resp"
  /\ step(i, [s EXCEPT !.pc = "existing"])

\* The columns import_whoop_daily writes into the legacy summary row.
ImportedColumns ==
  {"recovery_score", "hrv_ms", "rhr_bpm", "respiratory_rate", "spo2_pct",
   "sleep_hours", "strain"}

\* The legacy summary row of import_whoop_daily: an existing row takes the
\* values that are not None, a new row takes them all; respiratory_rate is
\* never read from the response.
imported_row(existing, d, f) ==
  LET imported_values == [c \in ImportedColumns |->
                            IF c = "respiratory_rate" THEN None ELSE f[c]]
  IN
  IF NotNone(existing)
  THEN [c \in DOMAIN Get(existing) |->
          IF c \in ImportedColumns /\ NotNone(imported_values[c])
          THEN imported_values[c]
          ELSE Get(existing)[c]]
  ELSE [c \in {"id", "date", "recovery_score", "hrv_ms", "rhr_bpm",
               "respiratory_rate", "sleep_hours", "sleep_efficiency_pct",
               "deep_sleep_min", "rem_sleep_min", "strain", "avg_hr_day",
               "avg_hr_sleep", "spo2_pct"} |->
          IF c = "id" THEN NextId({}, d)
          ELSE IF c = "date" THEN d
          ELSE IF c \in ImportedColumns THEN imported_values[c]
          ELSE None]

\* The legacy summary row of POST /whoop: the setattr loop on the row found
\* or the db.add of a new one.
posted_row(existing, d, data) ==
  IF NotNone(existing) THEN set_fields(Get(existing), data)
  ELSE new_whoop_row(NextId({}, d), d, data)

\* Both WHOOP ingestion handlers: the query for the WhoopDaily row of the
\* date and the write to the row found or added.
select_existing(i) ==
  LET s == sessions[i]
      existing == one_or_none({w \in whoop_daily : w.date = s.d})
  IN  /\ s.pc = "existing"
      /\ step(i, [s EXCEPT !.whoop = Some(IF s.op = "ingest_whoop"
                                          THEN posted_row(existing, s.d, Get(s.data))
                                          ELSE imported_row(existing, s.d, Get(s.data))),
                           !.whoop_loaded = existing,
                           !.whoop_pending = IsNone(existing),
                           !.pc = "whoop"])

\* .order_by(SeraDailySnapshot.date.desc()).first()
latest_snapshot(snaps) ==
  IF snaps = {} THEN None
  ELSE Some(CHOOSE s \in snaps : \A t \in snaps :
              t.date < s.date \/ (t.date = s.date /\ Older(t, s)))

\* GET /snapshot/latest and GET /readiness/latest: the query for the latest
\* snapshot, 404 when there is none.
select_latest(i) ==
  LET s == sessions[i]
      snap == latest_snapshot(sera_daily_snapshot)
  IN  /\ s.pc = "latest"
      /\ step(i, IF IsNone(snap)
                 THEN [s EXCEPT !.pc = "done", !.status = 404, !.error = "HTTPException"]
                 ELSE [s EXCEPT !.d = Get(snap).date, !.row_loaded = snap,
                                !.pc = IF s.op = "get_latest_snapshot" THEN "whoop"
                                       ELSE "row"])

\* merge_for_date: the query for the WHOOP row of the date.  A row the
\* session has loaded is the object it holds; a row it added is in no
\* result before the flush.
select_whoop(i) ==
  LET s == sessions[i]
      found == one_or_none({w \in whoop_daily : w.date = s.d})
  IN  /\ s.pc = "whoop"
      /\ step(i, [s EXCEPT !.seen = IF IsNone(found) THEN None
                                    ELSE IF NotNone(s.whoop_loaded)
                                            /\ Get(s.whoop_loaded).id = Get(found).id
                                    THEN s.whoop
                                    ELSE found,
                           !.pc = "body"])

\* merge_for_date: the query for the latest scale entry of the date, and
\* the early return without source rows: GET /snapshot/daily then answers
\* 404, the other handlers go on to their commit.
select_body(i) ==
  LET s == sessions[i] IN
  /\ s.pc = "body"
  /\ \E body \in latest_first({b \in body_metrics : b.date = s.d}) :
       step(i, IF ~no_source_data(body, s.seen)
               THEN [s EXCEPT !.body = body, !.pc = "snapshot"]
               ELSE IF s.op = "get_snapshot_by_date"
               THEN [s EXCEPT !.body = body, !.merged = "none", !.pc = "done",
                              !.status = 404, !.error = "HTTPException"]
               ELSE [s EXCEPT !.body = body, !.merged = "none", !.pc = "commit"])

\* The snapshot rows a query of the session returns: the committed rows,
\* with the row the session has loaded as the object it holds.
loaded_view(s, snaps) ==
  IF IsNone(s.row_loaded) THEN snaps
  ELSE {IF x.id = Get(s.row_loaded).id THEN Get(s.row_loaded) ELSE x : x \in snaps}

\* The session once a core function ran on the rows `view` with outcome
\* `out`: the row it returns and that row as loaded, and the rows of other
\* dates it changed.  With `columns` the assignments are still to make, one
\* step each; without, they are made.
held(s, out, view, columns) ==
  LET ret == Get(out.ret)
      loaded == one_or_none({x \in view : x.id = ret.id})
  IN  [s EXCEPT !.ret = out.ret,
                !.row_loaded = loaded,
                !.row = IF columns = << >> THEN out.ret
                        ELSE IF IsNone(loaded) THEN Some(NewSnapshot(ret.date, ret.id))
                        ELSE loaded,
                !.todo = columns,
                !.created = IsNone(loaded),
                !.cleared = /\ NotNone(loaded)
                            /\ \E f \in MetricSet :
                                 NotNone(Get(loaded)[f]) /\ IsNone(ret[f]),
                !.others = {upsert(one_or_none({x \in view : x.id = r.id}), r) :
                              r \in {x \in out.snaps \ view : x.id # ret.id}},
                !.before = IF columns = << >> THEN None ELSE Some(Tables),
                !.pc = "commit"]

\* merge_for_date: the query for the snapshot of the date, the db.add of a
\* new one when there is none, and the assignments.
select_snapshot(i, columns) ==
  LET s == sessions[i] IN
  /\ s.pc = "snapshot"
  /\ \E view \in {loaded_view(s, sera_daily_snapshot)} :
       step(i, [held(s, merge_rows(s.seen, s.body, view, s.d), view, columns)
                  EXCEPT !.merged = "snapshot"])

\* compute_readiness_for_date: the query for the snapshot of the date;
\* None is returned when there is none, which both handlers answer with 404.
select_row(i) ==
  LET s == sessions[i] IN
  /\ s.pc = "row"
  /\ \E view \in {loaded_view(s, sera_daily_snapshot)} :
       step(i, IF /\ IsNone(lookup_snapshot(view, s.d))
                  /\ IsNone(compute_readiness_for_date(view, s.d).ret)
               THEN [s EXCEPT !.computed = "none", !.pc = "done", !.status = 404,
                              !.error = "HTTPException"]
               ELSE [s EXCEPT !.row_loaded = lookup_snapshot(view, s.d),
                              !.pc = "history"])

\* compute_readiness_for_date: the query for the snapshots of the 7 days
\* before the date, the computation and the assignments.
select_history(i, columns) ==
  LET s == sessions[i] IN
  /\ s.pc = "history"
  /\ \E view \in {loaded_view(s, sera_daily_snapshot)} :
       step(i, held(s, compute_readiness_for_date(view, s.d), view, columns))

\* snapshot.<column> = <value>: the next assignment of the session.
assigned(session) ==
  LET f == Head(session.todo) IN
  [session EXCEPT !.row = Some([Get(session.row) EXCEPT ![f] = Get(session.ret)[f]]),
                  !.todo = Tail(session.todo)]

\* BodyMetricsEntry(timestamp=dt, date=dt.date(), ...) for each measurement
RECURSIVE add_entries(_, _)
add_entries(rows, measurements) ==
  IF measurements = << >> THEN rows
  ELSE LET m == Head(measurements)
           entry == [id |-> NextId({r \in rows : r.timestamp = m.timestamp},
                                   m.timestamp),
                     timestamp |-> m.timestamp,
                     date |-> m.timestamp \div 24,
                     weight_kg |-> m.weight_kg, weight_lb |-> m.weight_lb,
                     body_fat_pct |-> m.body_fat_pct,
                     body_water_pct |-> m.body_water_pct]
       IN  add_entries(rows \cup {entry}, Tail(measurements))

\* INSERT of the rows the session added: the store assigns their ids.
inserted(rows, added) ==
  rows \cup {[r EXCEPT !.id = NextId({x \in rows : x.id[1] = r.id[1]}, r.id[1])] :
               r \in added}

\* UPDATE of the rows the session loaded, by primary key.
updated(rows, writes) ==
  {IF \E w \in writes : w.row.id = x.id
   THEN LET w == CHOOSE v \in writes : v.row.id = x.id
        IN  update_row(x, Get(w.loaded), w.row)
   ELSE x : x \in rows}

\* The rows the session holds for a table, each with the row as loaded.
writes_of(session, table) ==
  IF table = "whoop_daily"
  THEN (IF IsNone(session.whoop) THEN {}
        ELSE {upsert(session.whoop_loaded, Get(session.whoop))})
  ELSE IF table = "sera_daily_snapshot"
  THEN (IF IsNone(session.row) THEN {}
        ELSE {upsert(session.row_loaded, Get(session.row))})
       \cup session.others
  ELSE session.added[table]

\* The tables once the session's changes are flushed.
flushed(session, tables) ==
  [t \in DOMAIN tables |->
     IF t = "body_metrics"
     THEN (IF session.op = "ingest_body_metrics"
           THEN add_entries(tables[t], Get(session.data))
           ELSE tables[t])
     ELSE inserted(updated(tables[t],
                           {w \in writes_of(session, t) : NotNone(w.loaded)}),
                   {w.row : w \in {v \in writes_of(session, t) : IsNone(v.loaded)}})]

\* The commit took effect: the tables hold the flushed rows.
committed(tables) ==
  /\ whoop_daily' = tables.whoop_daily
  /\ whoop_recovery_daily' = tables.whoop_recovery_daily
  /\ whoop_sleep_activity' = tables.whoop_sleep_activity
  /\ whoop_cycle_daily' = tables.whoop_cycle_daily
  /\ whoop_body_measurement' = tables.whoop_body_measurement
  /\ body_metrics' = tables.body_metrics
  /\ sera_daily_snapshot' = tables.sera_daily_snapshot

\* db.commit(), all assignments made.  The flush is rejected with an
\* IntegrityError when it breaks a unique constraint: the transaction is
\* rolled back and the request answers 500.  Else the tables hold the
\* flushed rows and every object of the session is expired, the snapshot
\* row keeping the primary key the INSERT or the load gave it; the ingestion
\* handlers answer 200 at once, the four others go on to their db.refresh,
\* compute_readiness_for_date with a snapshot to return.
commit(i) ==
  LET s == sessions[i]
      refreshing == s.op \in {"get_snapshot_by_date", "get_latest_snapshot",
                              "get_readiness_for_date", "get_readiness_latest"}
      held_row == IF NotNone(s.row) THEN s.row ELSE s.row_loaded
      key == Get(held_row).id[1]
      expired ==
        [s EXCEPT !.row = IF IsNone(held_row) THEN None
                          ELSE IF s.created
                          THEN Some([Get(held_row) EXCEPT
                                       !.id = NextId({x \in sera_daily_snapshot :
                                                        x.id[1] = key}, key)])
                          ELSE held_row,
                  !.computed = IF s.op \in {"get_readiness_for_date",
                                             "get_readiness_latest"}
                               THEN "snapshot" ELSE "-",
                  !.pc = IF refreshing THEN "refresh" ELSE "done",
                  !.status = IF refreshing THEN 0 ELSE 200]
  IN
  /\ s.pc = "commit"
  /\ s.todo = << >>
  /\ UNCHANGED <<engine, ingested>>
  /\ \E tables \in {flushed(s, Store)} :
       IF commit_ok(tables)
       THEN /\ committed(tables)
            /\ sessions' = [sessions EXCEPT ![i] = expired]
            /\ last' = sessions'[i]
       ELSE /\ UNCHANGED Tables
            /\ sessions' = [sessions EXCEPT ![i] =
                 [s EXCEPT !.pc = "done", !.status = 500,
                           !.error = "IntegrityError"]]
            /\ last' = sessions'[i]

\* db.refresh(snap): the SELECT of the row by its primary key; the handler
\* answers 200 with the row as read.
refresh(i) ==
  LET s == sessions[i]
      snap == one_or_none({x \in sera_daily_snapshot : x.id = Get(s.row).id})
  IN  /\ s.pc = "refresh"
      /\ step(i, [s EXCEPT !.ret = snap, !.row = snap, !.row_loaded = snap,
                           !.pc = "done", !.status = 200])

\* The requests of a client that sends one after the other, each after the
\* response to the one before: slot 1 alone takes steps.  `ingested` counts
\* the ingestion requests that reach their first statement.
counted(i) ==
  /\ ingested < MaxIngest
  /\ ingested' = IF sessions'[i].pc = "done" THEN ingested ELSE ingested + 1

Next ==
  \/ \E text \in DateTexts(Dates), data \in WhoopPayloads : ingest_whoop(1, text, data) /\ counted(1)
  \/ \E text \in DateTexts(Dates), f \in Fetched : import_whoop_daily(1, text, f) /\ counted(1)
  \/ \E batch \in Batches : ingest_body_metrics(1, batch) /\ counted(1)
  \/ \E text \in DateTexts(Dates) : get_snapshot_by_date(1, text) /\ UNCHANGED ingested
  \/ get_latest_snapshot(1) /\ UNCHANGED ingested
  \/ \E text \in DateTexts(Dates) : get_readiness_for_date(1, text) /\ UNCHANGED ingested
  \/ get_readiness_latest(1) /\ UNCHANGED ingested
  \/ recovery_resp(1)
  \/ select_recovery(1)
  \/ sleep_resp(1)
  \/ select_sleep(1)
  \/ cycle_resp(1)
  \/ select_cycle(1)
  \/ workout_resp(1)
  \/ body_resp(1)
  \/ profile_resp(1)
  \/ select_existing(1)
  \/ select_latest(1)
  \/ select_whoop(1)
  \/ select_body(1)
  \/ select_snapshot(1, << >>)
  \/ select_row(1)
  \/ select_history(1, << >>)
  \/ commit(1)
  \/ refresh(1)

Spec == Init /\ [][Next]_vars

\* ------------------------------------------------------------ a week of data

\* The service with WHOOP data of several days already ingested, then read:
\* the store right after one POST /whoop per date (each for a new date, so
\* that no snapshot exists yet), followed by any sequence of the four read
\* handlers, one request after the other.  Day 9 has the look-back window
\* [2, 9): days 2 and 8 lie in it, day 1 just before it.
HistoryDates == {1, 2, 8, 9}

\* A WHOOP summary with a recovery score and stage minutes, without HRV and
\* without sleep duration.
WhoopNoHrvNoSleep ==
  WhoopIn(N(80), None, N(52), None, None, None, N(30), None, N(10), None)

\* A WHOOP summary with 0 hours of sleep and 30 minutes in each stage.
WhoopZeroSleep ==
  WhoopIn(N(-50), N(-10), None, None, N(0), None, N(30), N(30), N(-3), None)

\* What was posted for a date, if anything.
HistoryPosted(d) ==
  LET a == WhoopIn(N(80), N(60), N(52), N(15), Some(Lit7_5), N(90), None, None, N(10), N(97))
      b == WhoopIn(N(69), N(45), None, None, N(8), None, N(96), N(120), None, None)
  IN  IF d = 1 THEN {Some(a)}
      ELSE IF d = 2 THEN {Some(a), Some(b)}
      ELSE IF d = 8 THEN {Some(b), Some(WhoopNoHrvNoSleep)}
      ELSE {Some(a), Some(WhoopZeroSleep)}

HistoryInit ==
  \E posted \in [HistoryDates -> UNION {HistoryPosted(d) : d \in HistoryDates}] :
    /\ \A d \in HistoryDates : posted[d] \in HistoryPosted(d)
    /\ engine = Some("postgresql")
    /\ whoop_daily = {new_whoop_row(NextId({}, d), d, Get(posted[d])) :
                        d \in {x \in HistoryDates : NotNone(posted[x])}}
    /\ whoop_recovery_daily = {}
    /\ whoop_sleep_activity = {}
    /\ whoop_cycle_daily = {}
    /\ whoop_body_measurement = {}
    /\ body_metrics = {}
    /\ sera_daily_snapshot = {}
    /\ ingested = Cardinality({x \in HistoryDates : NotNone(posted[x])})
    /\ sessions = [i \in Slots |-> Idle]
    /\ last = Idle

HistoryNext ==
  \/ \E text \in DateTexts(HistoryDates) : get_snapshot_by_date(1, text) /\ UNCHANGED ingested
  \/ get_latest_snapshot(1) /\ UNCHANGED ingested
  \/ \E text \in DateTexts(HistoryDates) : get_readiness_for_date(1, text) /\ UNCHANGED ingested
  \/ get_readiness_latest(1) /\ UNCHANGED ingested
  \/ select_latest(1)
  \/ select_whoop(1)
  \/ select_body(1)
  \/ select_snapshot(1, << >>)
  \/ select_row(1)
  \/ select_history(1, << >>)
  \/ commit(1)
  \/ refresh(1)

HistorySpec == HistoryInit /\ [][HistoryNext]_vars

\* ------------------------------------------------------------ one request, step by step

\* One request at a time, with the assignments of the core function as
\* steps of their own: the session holds the rows it changed, the tables
\* hold what is committed.  The request can end at any wait before its
\* response (the worker is stopped, the connection is lost), and db.close()
\* then discards the session.

\* Fault: every assignment written through to the table at once.
autocommit_each_write(session, snaps) ==
  {x \in snaps : x.date # session.d} \cup {Get(session.row)}

\* The committed snapshot table after an assignment of a session: the
\* assignment changes the mapped object only; nothing is flushed before
\* db.commit() (autocommit=False, autoflush=False).
before_commit(session, snaps) == snaps

CycleDates == {8, 9}

CyclePayloads ==
  { WhoopIn(N(80), N(60), N(52), N(15), Some(Lit7_5), N(90), None, None, N(10), N(97)),
    WhoopIn(N(69), N(45), None, None, N(8), None, N(96), N(120), None, None) }

\* A WHOOP row on day 8 and a scale entry on day 9 are stored; no request
\* is in flight.
CycleInit ==
  /\ engine = Some("postgresql")
  /\ whoop_daily =
       {new_whoop_row(NextId({}, 8), 8,
          WhoopIn(N(80), N(60), N(52), N(15), Some(Lit7_5), N(90), None, None, N(10), N(97)))}
  /\ whoop_recovery_daily = {}
  /\ whoop_sleep_activity = {}
  /\ whoop_cycle_daily = {}
  /\ whoop_body_measurement = {}
  /\ body_metrics = add_entries({}, <<BodyMetricsIn(24 * 9 + 8, N(70), None, N(20), N(55))>>)
  /\ sera_daily_snapshot = {}
  /\ ingested = 0
  /\ sessions = [i \in Slots |-> Idle]
  /\ last = Idle

\* One assignment to the snapshot row of the request of slot i.
set_attribute(i) ==
  LET s == sessions[i] IN
  /\ s.pc = "commit"
  /\ s.todo # << >>
  /\ sessions' = [sessions EXCEPT ![i] = assigned(s)]
  /\ last' = sessions'[i]
  /\ sera_daily_snapshot' = before_commit(sessions'[i], sera_daily_snapshot)
  /\ UNCHANGED <<engine, whoop_daily, whoop_recovery_daily, whoop_sleep_activity,
                 whoop_cycle_daily, whoop_body_measurement, body_metrics, ingested>>

\* The request of slot i ends before its response, at any wait: before its
\* db.commit(), or between the commit and the db.refresh; db.close()
\* discards the session.
abort(i) ==
  LET s == sessions[i] IN
  /\ s.pc \notin {"idle", "done", "aborted"}
  /\ step(i, [s EXCEPT !.pc = "aborted", !.status = 500, !.error = "aborted"])

CycleNext ==
  \/ \E text \in DateTexts(CycleDates), data \in CyclePayloads : ingest_whoop(1, text, data) /\ counted(1)
  \/ \E text \in DateTexts(CycleDates) : get_snapshot_by_date(1, text) /\ UNCHANGED ingested
  \/ \E text \in DateTexts(CycleDates) : get_readiness_for_date(1, text) /\ UNCHANGED ingested
  \/ select_existing(1)
  \/ select_whoop(1)
  \/ select_body(1)
  \/ select_snapshot(1, MergeAssignments)
  \/ select_row(1)
  \/ select_history(1, ReadinessAssignments)
  \/ set_attribute(1)
  \/ commit(1)
  \/ refresh(1)
  \/ abort(1)

CycleSpec == CycleInit /\ [][CycleNext]_vars

\* ------------------------------------------------------------ two requests at once

\* Two requests served at the same time, of any of the handlers: the steps
\* of the two slots interleave freely.  A statement sees the rows committed when it runs
\* (READ COMMITTED).  The store starts as in CycleInit.

\* The most requests of a run of the two slots together (`ingested` counts
\* them here).
MaxRequests == 3

\* A request of such a run arrives.  The imports of these runs have every
\* request answered, or the workout request raising; the scale batches hold
\* one entry, on day 8.
arrived == ingested < MaxRequests /\ ingested' = ingested + 1

RaceNext ==
  \/ \E i \in Slots, text \in DateTexts(CycleDates), data \in CyclePayloads : ingest_whoop(i, text, data) /\ arrived
  \/ \E i \in Slots, text \in DateTexts(CycleDates), f \in {Import(TRUE, 200, "-"), Import(TRUE, 200, "workout")} : import_whoop_daily(i, text, f) /\ arrived
  \/ \E i \in Slots, batch \in {<<BodyMetricsIn(24 * 8 + 8, None, N(150), None, None)>>} : ingest_body_metrics(i, batch) /\ arrived
  \/ \E i \in Slots, text \in DateTexts(CycleDates) : get_snapshot_by_date(i, text) /\ arrived
  \/ \E i \in Slots : get_latest_snapshot(i) /\ arrived
  \/ \E i \in Slots, text \in DateTexts(CycleDates) : get_readiness_for_date(i, text) /\ arrived
  \/ \E i \in Slots : get_readiness_latest(i) /\ arrived
  \/ \E i \in Slots : recovery_resp(i)
  \/ \E i \in Slots : select_recovery(i)
  \/ \E i \in Slots : sleep_resp(i)
  \/ \E i \in Slots : select_sleep(i)
  \/ \E i \in Slots : cycle_resp(i)
  \/ \E i \in Slots : select_cycle(i)
  \/ \E i \in Slots : workout_resp(i)
  \/ \E i \in Slots : body_resp(i)
  \/ \E i \in Slots : profile_resp(i)
  \/ \E i \in Slots : select_existing(i)
  \/ \E i \in Slots : select_latest(i)
  \/ \E i \in Slots : select_whoop(i)
  \/ \E i \in Slots : select_body(i)
  \/ \E i \in Slots : select_snapshot(i, << >>)
  \/ \E i \in Slots : select_row(i)
  \/ \E i \in Slots : select_history(i, << >>)
  \/ \E i \in Slots : commit(i)
  \/ \E i \in Slots : refresh(i)

RaceSpec == CycleInit /\ [][RaceNext]_vars

\* ------------------------------------------------------------ properties

\* The snapshot rows of a date.
SnapshotsOf(d) == {s \in sera_daily_snapshot : s.date = d}

\* The request that took the latest step called merge_for_date and has been
\* answered, its commit gone through (a 404 answer commits nothing and
\* changes nothing).
MergeRan == last.merged # "-" /\ last.status \in {200, 404}

\* The source rows of last.d that the merge_for_date of that request read: the
\* latest scale entry of the date, and the WHOOP row of the date unless the
\* request had added that row itself without flushing it.
BodySeen == last.body

WhoopSeen ==
  IF last.whoop_pending THEN None
  ELSE one_or_none({w \in whoop_daily : w.date = last.d})

\* The weights WHOOP reported for a date (whoop_body_measurement).
WearableWeights(d) ==
  {r.weight_kilogram : r \in {x \in whoop_body_measurement :
                                x.as_of_date = d /\ NotNone(x.weight_kilogram)}}

\* C1: in every reachable state there is at most one snapshot row per
\* calendar date, however many merges ran for it: no commit is ever rejected
\* by the unique constraint, and the row of a date stays the first row
\* inserted for it (later merges change that row, they insert no other).
C1_OneSnapshotPerDate ==
  /\ \A s, t \in sera_daily_snapshot : s.date = t.date => s = t
  /\ \A s \in sera_daily_snapshot : s.id = <<s.date, 0>>
  /\ last.error # "IntegrityError"

\* A merge has just updated the existing row of its date, next to the row of
\* another date.
C1_Witness ==
  /\ last.merged = "snapshot" /\ ~last.created /\ last.status = 200
  /\ Cardinality(SnapshotsOf(last.d)) = 1
  /\ Cardinality(sera_daily_snapshot) = 2

\* C2: a merge_for_date(d) that finds neither a scale entry nor a WHOOP row
\* for d returns None and leaves the snapshot table as it is, in every step
\* of every handler that calls it; and on every reachable store, were the
\* source rows of d absent, merge_for_date(d) would return None and leave
\* every snapshot row, the one of d included, unchanged.
C2_NoSourceNoOp ==
  [][ /\ ( /\ last'.merged # "-"
           /\ {w \in whoop_daily : w.date = last'.d} = {}
           /\ {b \in body_metrics : b.date = last'.d} = {} )
         => (last'.merged = "none" /\ sera_daily_snapshot' = sera_daily_snapshot)
      /\ \A d \in Dates :
           \A m \in merge_for_date({w \in whoop_daily : w.date # d},
                                   {b \in body_metrics : b.date # d},
                                   sera_daily_snapshot, d) :
             IsNone(m.ret) /\ m.snaps = sera_daily_snapshot
    ]_vars

\* A merge for a date without source rows has just answered None, with
\* snapshots of other dates in the table.
C2_Witness ==
  /\ last.merged = "none" /\ last.op = "get_snapshot_by_date"
  /\ {w \in whoop_daily : w.date = last.d} = {}
  /\ {b \in body_metrics : b.date = last.d} = {}
  /\ sera_daily_snapshot # {}

\* C3: merge_for_date is idempotent.  On every reachable store and for every
\* date, a second merge_for_date(d) on the result of a first one returns the
\* same row, leaves as many snapshot rows for d as the first, and leaves the
\* 16 raw metrics and whoop_id as the first left them; and after a request
\* whose merge read the stored source rows, a further merge_for_date of the
\* same date changes nothing at all.
C3_MergeIdempotent ==
  /\ \A d \in Dates :
       \A once \in merge_for_date(whoop_daily, body_metrics, sera_daily_snapshot, d) :
         \A twice \in merge_for_date(whoop_daily, body_metrics, once.snaps, d) :
           LET rows1 == {s \in once.snaps : s.date = d}
               rows2 == {s \in twice.snaps : s.date = d}
           IN  /\ twice.ret = once.ret
               /\ Cardinality(rows2) = Cardinality(rows1)
               /\ \A s \in rows1 : \E t \in rows2 :
                    \A f \in MetricSet \cup {"whoop_id"} : t[f] = s[f]
  /\ (last.merged = "snapshot" /\ last.status = 200 /\ ~last.whoop_pending)
       => \A again \in merge_for_date(whoop_daily, body_metrics,
                                      sera_daily_snapshot, last.d) :
            again.snaps = sera_daily_snapshot

\* C4: merge is a full recomputation.  After a merge that returned a
\* snapshot, each of the 16 raw metrics of the row is what the priority list
\* resolves from the source rows the merge read, and is null when no source
\* of the list holds a value, whatever the row held before.
C4_FullRecomputation ==
  (last.merged = "snapshot" /\ last.status = 200)
    => /\ SnapshotsOf(last.d) # {}
       /\ \A s \in SnapshotsOf(last.d) : \A m \in MetricSet :
            /\ s[m] = choose_metric(m, BodySeen, WhoopSeen)
            /\ (\A i \in 1..Len(METRIC_SOURCE_PRIORITY[m]) :
                  IsNone(_get_value(METRIC_SOURCE_PRIORITY[m][i], m,
                                    BodySeen, WhoopSeen)))
                 => IsNone(s[m])

\* A merge has just replaced a non-null metric of an existing row by null.
C4_Witness ==
  /\ last.merged = "snapshot" /\ last.status = 200 /\ last.cleared
  /\ \E s \in SnapshotsOf(last.d) : \E m \in MetricSet : IsNone(s[m])

\* C5: field ownership.  A step of a handler that calls merge_for_date
\* leaves the four readiness columns of every existing snapshot row as they
\* were, and a step of a handler that calls compute_readiness_for_date leaves
\* the 16 raw metrics, whoop_id and date of every existing row as they were.
C5_FieldOwnership ==
  [][ \A s \in sera_daily_snapshot : \A t \in sera_daily_snapshot' :
        s.id = t.id =>
          /\ last'.merged # "-" => \A f \in ReadinessFields : t[f] = s[f]
          /\ last'.computed # "-" =>
               \A f \in MetricSet \cup {"whoop_id", "date"} : t[f] = s[f]
    ]_vars

\* A merge has just rewritten the recovery score of a row whose readiness
\* columns still hold what was computed from the score it had before.
C5_Witness ==
  /\ last.merged = "snapshot" /\ ~last.created /\ last.status = 200
  /\ \E s \in SnapshotsOf(last.d) :
       /\ NotNone(s.readiness_index) /\ NotNone(s.flags)
       /\ NotNone(s.recovery_score)
       /\ Get(s.flags).signal_scores.recovery
            # Some(Num(Trunc(Get(s.recovery_score))))

\* C6: the scale wins for weight.  After a merge for a date whose latest
\* scale entry has a weight and for which WHOOP reported a weight too, the
\* snapshot's weight_kg is the scale's; and choose_metric gives the scale's
\* weight also for a WHOOP row that carries a weight_kg of its own.
C6_BodyWeightWins ==
  /\ ( /\ last.merged = "snapshot" /\ last.status = 200
       /\ NotNone(BodySeen) /\ NotNone(Get(BodySeen).weight_kg)
       /\ WearableWeights(last.d) # {} )
       => \A s \in SnapshotsOf(last.d) : s.weight_kg = Get(BodySeen).weight_kg
  /\ \A b \in body_metrics, w \in whoop_daily : \A kg \in WearableWeights(w.date) :
       LET whoop == [f \in DOMAIN w \cup {"weight_kg"} |->
                       IF f = "weight_kg" THEN kg ELSE w[f]]
       IN  NotNone(b.weight_kg)
             => choose_metric("weight_kg", Some(b), Some(whoop)) = b.weight_kg

\* The scale said 70 kg, WHOOP said 71 kg, and the merged weight is 70 kg.
C6_Witness ==
  /\ last.merged = "snapshot" /\ last.status = 200
  /\ NotNone(BodySeen) /\ Get(BodySeen).weight_kg = N(70)
  /\ WearableWeights(last.d) = {N(71)}
  /\ \E w \in whoop_daily : w.date = last.d
  /\ \E s \in SnapshotsOf(last.d) : s.weight_kg = N(70)

\* C7: WHOOP is the fallback for the scale's metrics.  After a merge that
\* read the WHOOP row of a date for which WHOOP reported a weight, when the
\* date has no scale entry or its latest entry has no weight_kg, the
\* snapshot's weight_kg is WHOOP's weight; and its weight_lb is that weight
\* times 2.20462 when the scale supplies neither weight_lb nor weight_kg.
C7_WearableFallback ==
  ( /\ last.merged = "snapshot" /\ last.status = 200
    /\ NotNone(WhoopSeen)
    /\ WearableWeights(last.d) # {}
    /\ (IsNone(BodySeen) \/ IsNone(Get(BodySeen).weight_kg)) )
    => \A s \in SnapshotsOf(last.d) :
         /\ s.weight_kg \in WearableWeights(last.d)
         /\ (IsNone(BodySeen) \/ IsNone(Get(BodySeen).weight_lb))
              => \E kg \in WearableWeights(last.d) :
                   s.weight_lb = Some(FMul(Get(kg), LbPerKg))

\* C8: merge_for_date returns a snapshot exactly when it reads a source row
\* of the date, a scale entry or a WHOOP row.  With one source missing it
\* still returns the snapshot: every metric is then what the other source
\* gives, every lookup against the missing source is null, and whoop_id is
\* null when the WHOOP row is the missing one.
C8_SnapshotIffSource ==
  MergeRan =>
    /\ last.merged = "snapshot" <=> (NotNone(BodySeen) \/ NotNone(WhoopSeen))
    /\ last.merged = "snapshot" => SnapshotsOf(last.d) # {}
    /\ (last.merged = "snapshot" /\ IsNone(WhoopSeen)) =>
         \A s \in SnapshotsOf(last.d) :
           /\ IsNone(s.whoop_id)
           /\ \A m \in MetricSet :
                /\ IsNone(_get_value(WHOOP, m, BodySeen, None))
                /\ s[m] = _get_value(BODY, m, BodySeen, None)
                /\ m \notin ScaleMetrics => IsNone(s[m])
    /\ (last.merged = "snapshot" /\ IsNone(BodySeen)) =>
         \A s \in SnapshotsOf(last.d) : \A m \in MetricSet :
           /\ IsNone(_get_value(BODY, m, None, WhoopSeen))
           /\ s[m] = _get_value(WHOOP, m, None, WhoopSeen)

\* A merge has just returned a snapshot for a date that has scale entries and
\* no WHOOP row.
C8_Witness ==
  /\ last.merged = "snapshot" /\ last.status = 200
  /\ {w \in whoop_daily : w.date = last.d} = {}
  /\ NotNone(BodySeen)
  /\ \E s \in SnapshotsOf(last.d) : NotNone(s.weight_lb) /\ IsNone(s.hrv_ms)

\* C9: a step of a handler that calls compute_readiness_for_date(d) while no
\* snapshot row exists for d gets None and leaves every table as it is,
\* whatever source rows the date has.
C9_ComputeNeedsSnapshot ==
  [][ (last'.computed # "-" /\ SnapshotsOf(last'.d) = {})
        => /\ last'.computed = "none"
           /\ UNCHANGED Tables
    ]_vars

\* compute_readiness_for_date has just answered None for a date that has a
\* WHOOP row and a scale entry and no snapshot.
C9_Witness ==
  /\ last.computed = "none"
  /\ SnapshotsOf(last.d) = {}
  /\ \E w \in whoop_daily : w.date = last.d
  /\ \E b \in body_metrics : b.date = last.d

\* C10: every readiness_index stored is an integer between 0 and 100
\* inclusive, whatever the raw metrics and baselines (null, zero, negative,
\* very large), and compute_readiness_for_date stores one whenever it returns
\* a snapshot.
C10_IndexRange ==
  /\ \A s \in sera_daily_snapshot :
       NotNone(s.readiness_index) =>
         /\ Get(s.readiness_index) = Num(Trunc(Get(s.readiness_index)))
         /\ Trunc(Get(s.readiness_index)) \in 0..100
  /\ last.computed = "snapshot" =>
       \A s \in SnapshotsOf(last.d) : NotNone(s.readiness_index)

\* A recovery score of 1000 against a negative HRV baseline gave the index 100.
C10_Witness ==
  /\ last.computed = "snapshot"
  /\ \E s \in SnapshotsOf(last.d) :
       /\ s.recovery_score = N(1000)
       /\ s.readiness_index = N(100)
       /\ NotNone(s.flags) /\ Get(s.flags).hrv_baseline = N(-10)

\* The row compute_readiness_for_date has just written, if the request
\* handled last called it and got a snapshot.
Computed ==
  IF last.computed = "snapshot" THEN SnapshotsOf(last.d) ELSE {}

\* The 7-day history of a stored row, as compute_readiness_for_date reads it.
HistoryOf(s) == history_of(sera_daily_snapshot, s.date)

\* 0.6 * recovery_component + 0.2 * hrv_component + 0.2 * sleep_component
WeightedSum(rc, hc, sc) ==
  FAdd(FAdd(FMul(Lit0_6, rc), FMul(Lit0_2, hc)), FMul(Lit0_2, sc))

\* C11: the readiness_index persisted by compute_readiness_for_date is the
\* weighted sum 0.6 * recovery_component + 0.2 * hrv_component +
\* 0.2 * sleep_component rounded to the nearest integer and then clamped to
\* [0, 100] (recovery 80, HRV 60, 7.5 h of sleep and an empty history: 82.75,
\* hence 83).
C11_RoundedIndex ==
  \A s \in Computed :
    LET hrv_baseline == _avg(column(HistoryOf(s), "hrv_ms"))
        rounded == Round(WeightedSum(recovery_component_of(s),
                                     hrv_component_of(s, hrv_baseline),
                                     sleep_component_of(s)))
        clamped == IF rounded < 0 THEN 0 ELSE IF rounded > 100 THEN 100 ELSE rounded
    IN  s.readiness_index = Some(Num(clamped))

\* The flags the rules of the readiness engine trigger for a row, given the
\* HRV baseline: a set, stated rule by rule.
TriggeredFlags(s, hrv_baseline) ==
  {f \in {"hrv_low", "sleep_debt", "recovery_low"} :
     \/ /\ f = "hrv_low"
        /\ NotNone(s.hrv_ms) /\ NotNone(hrv_baseline)
        /\ FLess(Get(s.hrv_ms), Get(hrv_baseline))
     \/ /\ f = "sleep_debt"
        /\ NotNone(s.sleep_hours)
        /\ LET debt == FSub(Lit8, Get(s.sleep_hours))
           IN  FLess(Lit1, IF FLess(debt, Zero) THEN Zero ELSE debt)
     \/ /\ f = "recovery_low"
        /\ NotNone(s.recovery_score)
        /\ FLess(Get(s.recovery_score), Lit70)}

\* The elements of a sequence.
Range(seq) == {seq[i] : i \in 1..Len(seq)}

\* C12: the flags compute_readiness_for_date persists are exactly: hrv_low
\* iff today's HRV and the HRV baseline are both non-null and today is
\* strictly below the baseline; sleep_debt iff sleep_hours is non-null and
\* max(0, 8 - sleep_hours) > 1; recovery_low iff recovery_score is non-null
\* and below 70.  A null input never triggers its flag.
C12_FlagRules ==
  \A s \in Computed :
    /\ NotNone(s.flags)
    /\ Range(Get(s.flags).flags) = TriggeredFlags(s, Get(s.flags).hrv_baseline)
    /\ Len(Get(s.flags).flags) = Cardinality(Range(Get(s.flags).flags))
    /\ IsNone(s.hrv_ms) => "hrv_low" \notin Range(Get(s.flags).flags)
    /\ IsNone(s.sleep_hours) => "sleep_debt" \notin Range(Get(s.flags).flags)
    /\ IsNone(s.recovery_score) => "recovery_low" \notin Range(Get(s.flags).flags)

\* The three boundaries at once: HRV 50 against a baseline of 50, exactly
\* 7 hours of sleep and a recovery score of 70 trigger nothing.
C12_Witness ==
  \E s \in Computed :
    /\ s.hrv_ms = N(50) /\ Get(s.flags).hrv_baseline = N(50)
    /\ s.sleep_hours = N(7)
    /\ s.recovery_score = N(70)
    /\ Get(s.flags).flags = << >>

\* C13: on every stored row that has a flags payload, readiness_zone is
\* green, yellow or red and is fixed by the number of flags in that payload:
\* none gives green, one gives yellow, two or three give red.
C13_ZoneFromFlagCount ==
  \A s \in sera_daily_snapshot :
    /\ NotNone(s.flags) <=> NotNone(s.readiness_zone)
    /\ NotNone(s.flags) =>
         LET n == Len(Get(s.flags).flags) IN
         /\ n \in 0..3
         /\ n = 0 => s.readiness_zone = Some("green")
         /\ n = 1 => s.readiness_zone = Some("yellow")
         /\ n \in {2, 3} => s.readiness_zone = Some("red")

\* All three flags are triggered and the zone is red.
C13_Witness ==
  \E s \in Computed :
    /\ Len(Get(s.flags).flags) = 3
    /\ s.readiness_zone = Some("red")

\* The sum of a column over the rows that have a value in it.
RECURSIVE SumOf(_, _)
SumOf(rows, col) ==
  IF rows = {} THEN Zero
  ELSE LET r == CHOOSE x \in rows : TRUE
       IN  FAdd(Get(r[col]), SumOf(rows \ {r}, col))

\* The arithmetic mean of the non-null values of a column, null without any.
MeanOf(rows, col) ==
  LET valued == {r \in rows : NotNone(r[col])} IN
  IF valued = {} THEN None
  ELSE Some(FDiv(SumOf(valued, col), Num(Cardinality(valued))))

\* C14: the four baselines compute_readiness_for_date(d) persists are the
\* arithmetic means of the non-null values of exactly the stored rows dated
\* in [d - 7, d): the row of d, rows dated d - 8 or earlier and rows dated
\* after d do not contribute, a row dated d - 7 does, nulls are skipped, and
\* a column without a value in the window has a null baseline.
C14_BaselineWindow ==
  \A s \in Computed :
    LET window == {r \in sera_daily_snapshot :
                     r.date >= s.date - 7 /\ r.date < s.date}
        p == Get(s.flags)
    IN  /\ p.hrv_baseline = MeanOf(window, "hrv_ms")
        /\ p.sleep_baseline = MeanOf(window, "sleep_hours")
        /\ p.strain_baseline = MeanOf(window, "strain")
        /\ p.recovery_baseline = MeanOf(window, "recovery_score")

\* Readiness of day 9 computed with rows on days 1, 2, 8 and 9: the HRV
\* baseline is the mean of days 2 and 8 (60 and 45), the strain baseline is
\* day 2's 10 alone because day 8 has no strain.
C14_Witness ==
  \E s \in Computed :
    /\ s.date = 9
    /\ \E r \in SnapshotsOf(1) : r.hrv_ms = N(60)
    /\ \E r \in SnapshotsOf(2) : r.hrv_ms = N(60) /\ r.strain = N(10)
    /\ \E r \in SnapshotsOf(8) : r.hrv_ms = N(45) /\ IsNone(r.strain)
    /\ Get(s.flags).hrv_baseline = Some(Float(105, 2))
    /\ Get(s.flags).strain_baseline = N(10)

\* The trend the rule gives: null unless today's value is non-null and the
\* baseline is non-null and not zero, else (today - baseline) / baseline * 100.
TrendRule(today, baseline) ==
  IF IsNone(today) \/ IsNone(baseline) THEN None
  ELSE IF FIsZero(Get(baseline)) THEN None
  ELSE Some(FMul(FDiv(FSub(Get(today), Get(baseline)), Get(baseline)), Lit100))

\* C15: each of the two trend percentages compute_readiness_for_date
\* persists is null unless today's value is non-null and the persisted
\* baseline is non-null and non-zero, and is then
\* (today - baseline) / baseline * 100.
C15_TrendRule ==
  \A s \in Computed :
    LET p == Get(s.flags) IN
    /\ p.hrv_trend_pct = TrendRule(s.hrv_ms, p.hrv_baseline)
    /\ p.sleep_trend_pct = TrendRule(s.sleep_hours, p.sleep_baseline)
    /\ (IsNone(s.hrv_ms) \/ IsNone(p.hrv_baseline)) => IsNone(p.hrv_trend_pct)
    /\ (IsNone(s.sleep_hours) \/ IsNone(p.sleep_baseline)) => IsNone(p.sleep_trend_pct)

\* An HRV baseline of 0 leaves the HRV trend null while the sleep trend of
\* the same row, 7.5 h against a baseline of 100000 h, is
\* -99.99249999999999.
C15_Witness ==
  \E s \in Computed :
    LET p == Get(s.flags) IN
    /\ NotNone(s.hrv_ms) /\ p.hrv_baseline = N(0) /\ IsNone(p.hrv_trend_pct)
    /\ s.sleep_hours = Some(Lit7_5) /\ p.sleep_baseline = N(100000)
    /\ NotNone(p.sleep_trend_pct)
    /\ float_repr(Get(p.sleep_trend_pct)) = "-99.99249999999999"

\* clamp(x, lo, hi)
ClampTo(x, lo, hi) == IF FLess(x, lo) THEN lo ELSE IF FLess(hi, x) THEN hi ELSE x

\* The component rules: recovery, HRV against a baseline that is not 0,
\* sleep against the fixed 8 hours.
RecoveryRule(s) ==
  IF IsNone(s.recovery_score) THEN Zero ELSE Get(s.recovery_score)

HrvRule(s, baseline) ==
  IF NotNone(s.hrv_ms) /\ NotNone(baseline)
  THEN ClampTo(FMul(FDiv(Get(s.hrv_ms), Get(baseline)), Lit100), Zero, Lit120)
  ELSE RecoveryRule(s)

SleepRule(s) ==
  IF NotNone(s.sleep_hours)
  THEN ClampTo(FMul(FDiv(Get(s.sleep_hours), Lit8), Lit100), Zero, Lit120)
  ELSE RecoveryRule(s)

\* C16: the components of the readiness index.  recovery_component is the
\* recovery score, 0 when it is null; hrv_component is
\* clamp(today / baseline * 100, 0, 120) when today's HRV and the baseline
\* exist, else recovery_component; sleep_component is
\* clamp(sleep_hours / 8 * 100, 0, 120) when sleep_hours exists, else
\* recovery_component.  Stated for every baseline other than 0 (where the
\* quotient has no value), on the components themselves (as numbers: 0.0
\* and -0.0 are the same component) and on what is persisted from them: the
\* index and the signal scores of non-null inputs.
C16_ComponentRules ==
  \A s \in Computed :
    LET p == Get(s.flags)
        baseline == p.hrv_baseline
        rc == RecoveryRule(s)
        sc == SleepRule(s)
    IN  /\ FEq(recovery_component_of(s), rc)
        /\ FEq(sleep_component_of(s), sc)
        /\ NotNone(s.sleep_hours) => p.signal_scores.sleep = Some(Num(Round(sc)))
        /\ ~(NotNone(baseline) /\ FIsZero(Get(baseline))) =>
             LET hc == HrvRule(s, baseline) IN
             /\ FEq(hrv_component_of(s, baseline), hc)
             /\ NotNone(s.hrv_ms) => p.signal_scores.hrv = Some(Num(Round(hc)))
             /\ s.readiness_index =
                  Some(Num(Trunc(ClampTo(WeightedSum(rc, hc, sc), Zero, Lit100))))

\* HRV 60 against a baseline of 45 is capped at 120, 7.5 h of sleep give
\* 93.75, recovery is 80: the index is int(90.75) = 90.
C16_Witness ==
  \E s \in Computed :
    LET p == Get(s.flags) IN
    /\ s.hrv_ms = N(60) /\ p.hrv_baseline = N(45)
    /\ s.sleep_hours = Some(Lit7_5) /\ s.recovery_score = N(80)
    /\ p.signal_scores.hrv = N(120) /\ p.signal_scores.sleep = N(94)
    /\ s.readiness_index = N(90)

\* C17: the three signal scores compute_readiness_for_date persists are each
\* null-safe: the HRV score is null when today's HRV is null, the sleep score
\* is null when sleep_hours is null, the recovery score is null when
\* recovery_score is null; otherwise they are the rounded HRV component, the
\* rounded sleep component and the recovery score itself.
C17_NullSafeSignalScores ==
  \A s \in Computed :
    LET p == Get(s.flags)
        scores == p.signal_scores
    IN  /\ IF IsNone(s.hrv_ms) THEN IsNone(scores.hrv)
           ELSE scores.hrv =
                  Some(Num(Round(hrv_component_of(s, p.hrv_baseline))))
        /\ IF IsNone(s.sleep_hours) THEN IsNone(scores.sleep)
           ELSE scores.sleep = Some(Num(Round(sleep_component_of(s))))
        /\ IF IsNone(s.recovery_score) THEN IsNone(scores.recovery)
           ELSE scores.recovery = s.recovery_score

\* The place of a flag in the fixed order, and its canned clause.
FlagRank(f) == IF f = "hrv_low" THEN 1 ELSE IF f = "sleep_debt" THEN 2 ELSE 3

FlagClause(f) ==
  IF f = "hrv_low" THEN "HRV below 7-day baseline"
  ELSE IF f = "sleep_debt" THEN "sleep debt > 1h (target 8h)"
  ELSE "recovery score < 70"

\* The clauses of one, two or three flags joined by "; ".
JoinedClauses(flags) ==
  IF Len(flags) = 1 THEN FlagClause(flags[1])
  ELSE IF Len(flags) = 2
  THEN FlagClause(flags[1]) \o "; " \o FlagClause(flags[2])
  ELSE FlagClause(flags[1]) \o "; " \o FlagClause(flags[2]) \o "; "
       \o FlagClause(flags[3])

\* C18: on every stored row that has a flags payload, the insight is the
\* all-normal sentence iff the flag list is empty (and the zone is then
\* green); otherwise it is the clauses of exactly the listed flags joined by
\* "; "; the flag list, and with it the clauses, is in the order hrv_low,
\* sleep_debt, recovery_low.
C18_InsightFromFlags ==
  \A s \in sera_daily_snapshot :
    /\ NotNone(s.flags) <=> NotNone(s.insight)
    /\ NotNone(s.flags) =>
         LET flags == Get(s.flags).flags IN
         /\ Range(flags) \subseteq {"hrv_low", "sleep_debt", "recovery_low"}
         /\ \A i, j \in 1..Len(flags) :
              i < j => FlagRank(flags[i]) < FlagRank(flags[j])
         /\ (s.insight = Some("All primary signals within normal range."))
              <=> flags = << >>
         /\ flags = << >> => s.readiness_zone = Some("green")
         /\ flags # << >> => s.insight = Some(JoinedClauses(flags))

\* All three clauses, in order.
C18_Witness ==
  \E s \in Computed :
    /\ Get(s.flags).flags = <<"hrv_low", "sleep_debt", "recovery_low">>
    /\ s.insight = Some("HRV below 7-day baseline; sleep debt > 1h (target 8h); recovery score < 70")

\* The percentage of the night a stage of some minutes takes.
StagePct(minutes, sleep_hours) ==
  FMul(FDiv(minutes, FMul(sleep_hours, Lit60)), Lit100)

\* C19: sleep-stage derivation.  After a merge that read the WHOOP row of
\* its date, deep_sleep_pct (resp. rem_sleep_pct) of the snapshot is
\* deep_sleep_min (resp. rem_sleep_min) / (sleep_hours * 60) * 100 when the
\* row has sleep_hours > 0 and the stage minutes; when sleep_hours is null or
\* 0 the percentage is null, and the merge completes.
C19_SleepStagePct ==
  (MergeRan /\ NotNone(WhoopSeen)) =>
    /\ last.merged = "snapshot" /\ last.status = 200
    /\ SnapshotsOf(last.d) # {}
    /\ \A s \in SnapshotsOf(last.d) :
         LET w == Get(WhoopSeen)
             known == NotNone(w.sleep_hours) /\ FLess(Zero, Get(w.sleep_hours))
             unknown == IsNone(w.sleep_hours) \/ FIsZero(Get(w.sleep_hours))
         IN  /\ (known /\ NotNone(w.deep_sleep_min))
                  => s.deep_sleep_pct =
                       Some(StagePct(Get(w.deep_sleep_min), Get(w.sleep_hours)))
             /\ (known /\ NotNone(w.rem_sleep_min))
                  => s.rem_sleep_pct =
                       Some(StagePct(Get(w.rem_sleep_min), Get(w.sleep_hours)))
             /\ unknown => IsNone(s.deep_sleep_pct) /\ IsNone(s.rem_sleep_pct)

\* 96 minutes of deep sleep and 120 of REM in 8 hours: 20 and 25 percent;
\* and the snapshot of a night of 0 hours with 30 minutes in each stage has
\* null percentages.
C19_Witness ==
  /\ last.merged = "snapshot" /\ last.status = 200 /\ NotNone(WhoopSeen)
  /\ Get(WhoopSeen).sleep_hours = N(8)
  /\ Get(WhoopSeen).deep_sleep_min = N(96)
  /\ \E s \in SnapshotsOf(last.d) :
       s.deep_sleep_pct = N(20) /\ s.rem_sleep_pct = N(25)
  /\ \E t \in sera_daily_snapshot :
       /\ t.date # last.d /\ t.sleep_hours = N(0)
       /\ \E w \in whoop_daily : w.date = t.date /\ w.deep_sleep_min = N(30)
       /\ IsNone(t.deep_sleep_pct) /\ IsNone(t.rem_sleep_pct)

\* C20: weight unit derivation.  After a merge that read a scale entry of
\* its date, the latest entry being the winning record for weight: when the
\* entry has weight_kg only, the snapshot has that weight_kg and
\* weight_lb = weight_kg * 2.20462; when it has weight_lb only, the snapshot
\* has that weight_lb and weight_kg = weight_lb / 2.20462.  Either way both
\* units are non-null.
C20_WeightUnits ==
  (last.merged = "snapshot" /\ last.status = 200 /\ NotNone(BodySeen)) =>
    \A s \in SnapshotsOf(last.d) :
      LET b == Get(BodySeen) IN
      /\ (NotNone(b.weight_kg) /\ IsNone(b.weight_lb)) =>
           /\ s.weight_kg = b.weight_kg
           /\ s.weight_lb = Some(FMul(Get(b.weight_kg), LbPerKg))
      /\ (NotNone(b.weight_lb) /\ IsNone(b.weight_kg)) =>
           /\ s.weight_lb = b.weight_lb
           /\ s.weight_kg = Some(FDiv(Get(b.weight_lb), LbPerKg))
      /\ (NotNone(b.weight_kg) \/ NotNone(b.weight_lb)) =>
           NotNone(s.weight_kg) /\ NotNone(s.weight_lb)

\* The snapshot rows whose readiness columns have been computed.
Scored == {s \in sera_daily_snapshot : NotNone(s.flags)}

\* The magnitude of x rounded to one decimal (ties to the even digit), in
\* decimal digits.
OneDecimal(x) ==
  LET t == BToNat(BRoundShift(BMulSmall(x.m, 10), x.e)) IN
  ToString(t \div 10) \o "." \o ToString(t % 10)

\* C21: trend formatting.  For each of the two trends a readiness response
\* renders (the HRV and the sleep trend persisted in the flags of the row):
\* a null trend renders as "n/a"; a trend >= 0, exactly 0 included, renders
\* as "+", the value rounded to one decimal, "%"; a negative trend renders
\* as its minus sign, the magnitude rounded to one decimal, "%", without a
\* "+".  10.0 gives "+10.0%" and -10.0 gives "-10.0%".
C21_TrendFormat ==
  /\ \A s \in Scored :
       \A t \in {Get(s.flags).hrv_trend_pct, Get(s.flags).sleep_trend_pct} :
         LET str == _format_trend(t) IN
         /\ IsNone(t) => str = "n/a"
         /\ (NotNone(t) /\ FLeq(Zero, Get(t)))
              => str = "+" \o OneDecimal(Get(t)) \o "%"
         /\ (NotNone(t) /\ FLess(Get(t), Zero))
              => str = "-" \o OneDecimal(FSub(Zero, Get(t))) \o "%"
  /\ _format_trend(N(10)) = "+10.0%"
  /\ _format_trend(N(-10)) = "-10.0%"

\* C22: no partial-failure state.  A request that ends before its
\* db.commit(), at whatever point of its merge or readiness cycle, leaves all
\* tables as they were when its assignments began, and one that ends between
\* its commit and its db.refresh leaves them as committed.  The tables change
\* only in a db.commit() reached after every assignment of the cycle was made, and the
\* committed row of the cycle's date then holds every column the cycle writes
\* as the core function returned it, the rows of other dates being unchanged.
\* So the readiness columns of a committed row are all null or all set.
C22_NoPartialState ==
  /\ [][ /\ last'.pc = "aborted" =>
              /\ Tables' = Tables
              /\ (last.pc # "refresh" /\ NotNone(last.before))
                   => Tables' = Get(last.before)
         /\ (Tables' # Tables) =>
              /\ last.pc = "commit" /\ last.todo = << >>
              /\ last'.pc \in {"refresh", "done"} /\ last'.error = "-"
              /\ \A s \in sera_daily_snapshot' :
                   IF s.date = last.d
                   THEN NotNone(last.ret) =>
                          \A f \in MetricSet \cup {"whoop_id"} \cup ReadinessFields :
                            s[f] = Get(last.ret)[f]
                   ELSE s \in sera_daily_snapshot
       ]_vars
  /\ [](\A s \in sera_daily_snapshot :
          \/ \A f \in ReadinessFields : IsNone(s[f])
          \/ \A f \in ReadinessFields : NotNone(s[f]))

\* A POST /whoop for a date that has a snapshot with readiness has just ended
\* in the middle of its merge: its session held a changed WHOOP row and a
\* snapshot row with only some columns rewritten, and the tables are as they
\* were when it began.
C22_Witness ==
  /\ last.pc = "aborted" /\ last.op = "ingest_whoop"
  /\ last.todo # << >> /\ Len(last.todo) < Len(MergeAssignments)
  /\ Some(Tables) = last.before
  /\ Get(last.whoop) \notin whoop_daily
  /\ \E s \in SnapshotsOf(last.d) :
       /\ NotNone(s.readiness_index)
       /\ s.id = Get(last.row).id
       /\ s.hrv_ms # Get(last.row).hrv_ms
       /\ s.sleep_hours # Get(last.row).sleep_hours
       /\ Get(last.row).recovery_score # Get(last.ret).recovery_score

\* C23: the lookup-then-insert pattern under two concurrent writers.  When a
\* request whose lookup found no snapshot for d commits after another request
\* has committed a snapshot for d, its flush is an INSERT of a second row for
\* d (it does not look up again) and the store rejects it: the request ends
\* with status 500 and changes nothing.  With that rejection, and only
\* through it, the table keeps at most one row per date.
C23_RaceKeptByConstraint ==
  /\ [](\A s, t \in sera_daily_snapshot : s.date = t.date => s = t)
  /\ [][ \A i \in Slots :
           ( /\ sessions[i].pc = "commit" /\ sessions'[i].pc # "commit"
             /\ sessions[i].created
             /\ \E s \in sera_daily_snapshot : s.date = sessions[i].d )
           => /\ Cardinality({s \in flushed(sessions[i], Store).sera_daily_snapshot :
                                s.date = sessions[i].d}) = 2
              /\ sessions'[i].status = 500
              /\ sessions'[i].error = "IntegrityError"
              /\ Tables' = Tables
       ]_vars

\* Both requests looked up the snapshot of the same date before either
\* wrote; each added a new row; the first commit went through and the second
\* was rejected.
C23_Witness ==
  \E i, j \in Slots :
    /\ i # j /\ sessions[i].d = sessions[j].d
    /\ sessions[i].created /\ sessions[j].created
    /\ sessions[i].pc = "done" /\ sessions[i].status = 200
    /\ sessions[j].pc = "done" /\ sessions[j].status = 500
    /\ Cardinality(SnapshotsOf(sessions[i].d)) = 1

\* The dates for which a step wrote a source row: the date of a WHOOP ingest
\* or import that was committed, and the dates of the scale entries added.
WrittenDates ==
  {d \in Dates :
     \/ /\ last'.op \in {"ingest_whoop", "import_whoop_daily"}
        /\ last'.status = 200 /\ last'.d = d
     \/ \E b \in body_metrics' \ body_metrics : b.date = d}

\* C24: a snapshot after every ingestion.  After a request that wrote a
\* source row for date d (POST /whoop, the WHOOP import, a scale batch), the
\* first one for the date included, the tables hold a snapshot for d, and
\* each of its raw metrics is what the priority list resolves from the WHOOP
\* row and the latest scale entry of d as they stand after the request.
C24_SnapshotAfterIngest ==
  [][ \A d \in WrittenDates :
        /\ \E s \in sera_daily_snapshot' : s.date = d
        /\ \A s \in sera_daily_snapshot' :
             s.date = d =>
               \E body \in latest_first({b \in body_metrics' : b.date = d}) :
                 \A m \in MetricSet :
                   s[m] = choose_metric(m, body,
                            one_or_none({w \in whoop_daily' : w.date = d}))
    ]_vars

\* The scale entries of a date that no entry of the date is later than.
LatestEntries(d) ==
  {b \in body_metrics : b.date = d /\
     \A c \in body_metrics : c.date = d => c.timestamp <= b.timestamp}

\* C25: the latest scale entry of the day decides alone.  After a merge for
\* a date with scale entries, there is an entry L of the greatest timestamp
\* of the date such that weight_kg, bodyfat_pct and hydration_pct of the
\* snapshot are L's values where L has them, and otherwise what the WHOOP
\* row gives (or null), whatever the earlier entries of the day hold;
\* weight_lb likewise comes from L's weight_lb or L's weight_kg.
C25_LatestEntryOnly ==
  (last.merged = "snapshot" /\ last.status = 200 /\ LatestEntries(last.d) # {})
    => \A s \in SnapshotsOf(last.d) : \E L \in LatestEntries(last.d) :
         LET wearable(m) == _get_value(WHOOP, m, None, WhoopSeen) IN
         /\ s.weight_kg = IF NotNone(L.weight_kg) THEN L.weight_kg
                          ELSE wearable("weight_kg")
         /\ s.bodyfat_pct = IF NotNone(L.body_fat_pct) THEN L.body_fat_pct
                            ELSE wearable("bodyfat_pct")
         /\ s.hydration_pct = IF NotNone(L.body_water_pct) THEN L.body_water_pct
                              ELSE wearable("hydration_pct")
         /\ s.weight_lb = IF NotNone(L.weight_lb) THEN L.weight_lb
                          ELSE IF NotNone(L.weight_kg)
                          THEN Some(FMul(Get(L.weight_kg), LbPerKg))
                          ELSE wearable("weight_lb")

\* A merge has just run for a date with a morning entry that has a weight in
\* kg, body fat and body water, and an evening entry that has only a weight
\* in lb: the snapshot has the evening's pounds and no kilograms, body fat or
\* hydration.
C25_Witness ==
  /\ last.merged = "snapshot" /\ last.status = 200
  /\ \E early, late \in {b \in body_metrics : b.date = last.d} :
       /\ early.timestamp < late.timestamp
       /\ late \in LatestEntries(last.d)
       /\ NotNone(early.weight_kg) /\ NotNone(early.body_fat_pct)
       /\ NotNone(early.body_water_pct)
       /\ IsNone(late.weight_kg) /\ IsNone(late.body_fat_pct)
       /\ \E s \in SnapshotsOf(last.d) :
            /\ s.weight_lb = late.weight_lb
            /\ IsNone(s.weight_kg) /\ IsNone(s.bodyfat_pct)
            /\ IsNone(s.hydration_pct)

\* C26: the core writes the snapshot of its date only.  A request that calls
\* merge_for_date(d) or compute_readiness_for_date(d) from a read handler
\* leaves the three source tables as they were, and leaves every snapshot row
\* of another date as it was, the rows of [d - 7, d) that the readiness
\* computation read included; it adds no row for another date either.
C26_WritesOwnDateOnly ==
  [][ (last'.merged # "-" \/ last'.computed # "-") =>
        /\ last'.op \in {"get_snapshot_by_date", "get_latest_snapshot",
                         "get_readiness_for_date", "get_readiness_latest"}
             => /\ whoop_daily' = whoop_daily
                /\ whoop_body_measurement' = whoop_body_measurement
                /\ body_metrics' = body_metrics
        /\ \A s \in sera_daily_snapshot :
             s.date # last'.d => s \in sera_daily_snapshot'
        /\ \A t \in sera_daily_snapshot' :
             t.date # last'.d => t \in sera_daily_snapshot
    ]_vars

\* The readiness of day 9 has just been computed from the rows of days 2 and
\* 8, whose own readiness columns were computed before and differ from
\* those of day 9.
C26_Witness ==
  /\ last.computed = "snapshot" /\ last.d = 9
  /\ \E s \in SnapshotsOf(9) :
       /\ NotNone(Get(s.flags).hrv_baseline)
       /\ \A e \in {2, 8} : \E h \in SnapshotsOf(e) :
            /\ NotNone(h.flags) /\ NotNone(h.hrv_ms)
            /\ h.flags # s.flags

\* The snapshot table with the readiness columns of every row null.
WithoutReadiness(snaps) ==
  {[f \in DOMAIN s |-> IF f \in ReadinessFields THEN None ELSE s[f]] : s \in snaps}

\* C27: readiness has no incremental state.  On every reachable store:
\* compute_readiness_for_date(d) gives the row of d the same readiness
\* columns as it would with the readiness columns of all rows erased first;
\* a second call right after the first leaves the table as the first left
\* it; and the calls for two different dates lead to the same table in
\* either order.  A request with a date text that does not parse can follow
\* any request and leaves the tables alone, so the states right after one
\* hold every reachable store, each once: the property is evaluated there.
C27_NoIncrementalState ==
  (last.op = "get_readiness_for_date" /\ last.status = 400) =>
    LET first == {<<d, compute_readiness_for_date(sera_daily_snapshot, d)>> :
                    d \in HistoryDates}
    IN  \A one \in first :
          LET d == one[1]
              once == one[2]
              twice == compute_readiness_for_date(once.snaps, d)
              fresh == compute_readiness_for_date(
                         WithoutReadiness(sera_daily_snapshot), d)
          IN  /\ twice.snaps = once.snaps
              /\ twice.ret = once.ret
              /\ NotNone(once.ret) =>
                   \A f \in ReadinessFields : Get(once.ret)[f] = Get(fresh.ret)[f]
              /\ \A other \in first :
                   d < other[1] =>
                     compute_readiness_for_date(once.snaps, other[1]).snaps
                       = compute_readiness_for_date(other[2].snaps, d).snaps

\* The readiness of day 9 has just been computed with the row of day 8 as
\* its whole recovery history; day 8 holds a readiness index of its own,
\* different from that of day 9, and day 9 has a flag raised.
C27_Witness ==
  /\ last.computed = "snapshot" /\ last.d = 9
  /\ \E s \in SnapshotsOf(9), h \in SnapshotsOf(8) :
       /\ NotNone(h.readiness_index) /\ NotNone(h.recovery_score)
       /\ s.readiness_index # h.readiness_index
       /\ Get(s.flags).recovery_baseline = h.recovery_score
       /\ Get(s.flags).flags # << >>

\* C28: no snapshot without a source.  In every reachable state each date
\* that has a snapshot row has a WHOOP row or a scale entry; and no step
\* removes a source row or a snapshot row.
C28_SnapshotHasSource ==
  /\ [](\A s \in sera_daily_snapshot :
          \/ \E w \in whoop_daily : w.date = s.date
          \/ \E b \in body_metrics : b.date = s.date)
  /\ [][ /\ \A w \in whoop_daily : \E x \in whoop_daily' : x.id = w.id /\ x.date = w.date
         /\ body_metrics \subseteq body_metrics'
         /\ whoop_body_measurement \subseteq whoop_body_measurement'
         /\ \A s \in sera_daily_snapshot :
              \E t \in sera_daily_snapshot' : t.id = s.id /\ t.date = s.date
       ]_vars

\* Two snapshots are stored, one for a date that has only a scale entry and
\* one for a date that has only a WHOOP row.
C28_Witness ==
  \E s, t \in sera_daily_snapshot :
    /\ {w \in whoop_daily : w.date = s.date} = {}
    /\ {b \in body_metrics : b.date = s.date} # {}
    /\ {w \in whoop_daily : w.date = t.date} # {}
    /\ {b \in body_metrics : b.date = t.date} = {}

\* A number is well formed: a finite float (zero, or a 53-bit significand).
WellFormed(x) == IsNone(x) \/ FIsZero(Get(x)) \/ BBitLen(Get(x).m) = 53

\* C29: a baseline of exactly 0.  A readiness request that finds its
\* snapshot completes and persists the four readiness columns, every number
\* in them well formed.  When the HRV baseline is 0, the HRV trend is null,
\* and with an HRV value today the HRV signal score and the index are those
\* of an HRV component equal to the recovery component.  When the sleep
\* baseline is 0, the sleep trend is null.
C29_ZeroBaseline ==
  /\ last.computed = "snapshot" => Computed # {}
  /\ \A s \in Computed :
       LET fl == Get(s.flags)
           rc == RecoveryRule(s)
       IN  /\ \A f \in ReadinessFields : NotNone(s[f])
           /\ WellFormed(fl.hrv_trend_pct) /\ WellFormed(fl.sleep_trend_pct)
           /\ WellFormed(fl.hrv_baseline) /\ WellFormed(fl.sleep_baseline)
           /\ WellFormed(fl.sleep_debt_hours)
           /\ fl.hrv_baseline = N(0) =>
                /\ IsNone(fl.hrv_trend_pct)
                /\ fl.signal_scores.hrv = Some(Num(Round(rc)))
                /\ s.readiness_index =
                     Some(Num(Trunc(ClampTo(WeightedSum(rc, rc, SleepRule(s)),
                                            Zero, Lit100))))
           /\ fl.sleep_baseline = N(0) => IsNone(fl.sleep_trend_pct)

\* The readiness of a day with HRV 60 and recovery 80 has just been computed
\* against an HRV baseline of 0: no HRV trend, an HRV signal score of 80.
C29_Witness ==
  /\ last.computed = "snapshot"
  /\ \E s \in Computed :
       /\ Get(s.flags).hrv_baseline = N(0)
       /\ s.hrv_ms = N(60) /\ s.recovery_score = N(80)
       /\ IsNone(Get(s.flags).hrv_trend_pct)
       /\ Get(s.flags).signal_scores.hrv = N(80)
       /\ NotNone(Get(s.flags).sleep_trend_pct)

\* C30: a snapshot without HRV, sleep duration and recovery score.  A
\* readiness request for such a row (a date with scale data only, say)
\* succeeds (no exception, and status 200 once answered) and persists
\* readiness_index 0, zone green, an empty flag list,
\* null sleep-debt hours, null HRV and sleep trends and the all-normal
\* insight, whatever rows the look-back window holds.
C30_AllNullSnapshot ==
  \A s \in Computed :
    (IsNone(s.hrv_ms) /\ IsNone(s.sleep_hours) /\ IsNone(s.recovery_score)) =>
      /\ last.error = "-" /\ (last.pc = "done" => last.status = 200)
      /\ s.readiness_index = N(0)
      /\ s.readiness_zone = Some("green")
      /\ Get(s.flags).flags = << >>
      /\ IsNone(Get(s.flags).sleep_debt_hours)
      /\ IsNone(Get(s.flags).hrv_trend_pct)
      /\ IsNone(Get(s.flags).sleep_trend_pct)
      /\ s.insight = Some("All primary signals within normal range.")

\* The readiness of a date with scale data only has just been computed, with
\* a WHOOP day in its look-back window that gives it HRV, sleep and recovery
\* baselines.
C30_Witness ==
  /\ last.computed = "snapshot" /\ last.status = 200
  /\ \E s \in Computed :
       /\ IsNone(s.hrv_ms) /\ IsNone(s.sleep_hours) /\ IsNone(s.recovery_score)
       /\ NotNone(s.weight_lb)
       /\ NotNone(Get(s.flags).hrv_baseline)
       /\ NotNone(Get(s.flags).sleep_baseline)
       /\ NotNone(Get(s.flags).recovery_baseline)
       /\ s.readiness_index = N(0)

====
